---- MODULE Spec2Model ----
(***************************************************************************)
(* MindGuard: the scheduled check-in and recommendation engine.           *)
(*                                                                         *)
(* The model follows src/src/server.ts (the MindGuard agent: the check_ins *)
(* ledger, the cached state, the daily schedule, the HTTP endpoints) and   *)
(* src/src/workflows/checkInWorkflow.ts (the CheckInWorkflow steps).       *)
(*                                                                         *)
(* An async method is cut at its awaits: every action is the code that     *)
(* runs between two awaits of one invocation, so that other invocations    *)
(* of the same agent instance can run in between, as the JavaScript event  *)
(* loop allows.                                                            *)
(*                                                                         *)
(* Text that the code inspects character by character (the emotional tone) *)
(* is a sequence of one-character strings; text the code only stores and   *)
(* compares for emptiness (summary, recommendation items) is a string.     *)
(* A calendar date (the ISO date of "now") is the number of the day.       *)
(***************************************************************************)
EXTENDS Integers, Sequences, FiniteSets, TLC

\* ------------------------------------------------------------------ bounds

\* concurrent callers of saveCheckIn (tool calls and HTTP requests)
NumCallers == 2
\* saveCheckIn invocations that pass validation, per behaviour
MaxCalls == 3
\* the same, in the behaviours where invocations overlap
MaxOverlappingCalls == 2
\* calendar days per behaviour
MaxDays == 2
\* the same, and the saveCheckIn invocations, in the behaviours that build a history
MaxHistoryDays == 3
MaxHistoryCalls == 4
\* the largest limit passed to getCheckInHistory
MaxLimit == 3
\* overlapping onStart invocations (wake-ups) of one agent instance
NumStarters == 2
\* scheduled jobs created per behaviour
MaxJobs == 3
\* CheckInWorkflow runs per behaviour
MaxRuns == 2
\* executeDailyCheckIn firings per behaviour
MaxFirings == 1
\* stops of the workflow's host per run
MaxCrashes == 1
\* invocations of executeDailyCheckIn by the daily job's alarm, per behaviour
MaxAlarms == 2
\* the conversation's length up to which the user writes
MaxMessages == 2
\* the workflow runs of the behaviours with a conversation
MaxChatRuns == 1
\* saveCheckIn invocations in the behaviours about the preferences
MaxPrefSaves == 1

Callers == 1 .. NumCallers
\* the caller that is the workflow's save-check-in step
WfCaller == 0
AllCallers == 0 .. NumCallers
Starters == 1 .. NumStarters

\* ------------------------------------------------------------------- state

VARIABLES
    check_ins,  \* the rows of table check_ins
    state,      \* this.state, the cached MindGuardState
    today,      \* the calendar day of new Date()
    now,        \* the instant of new Date(): a clock that every reading finds later
    time,       \* the minute of the day the clock shows: an index of Instants
    nextId,     \* the next value of generateId()
    call,       \* per caller: the position and locals of its saveCheckIn invocation
    pre,        \* check_ins and state when the latest invocation started
    schedules,  \* the agent's scheduled jobs (getSchedules())
    nextJob,    \* the id the next scheduled job gets
    start,      \* per wake-up: the position and locals of its onStart invocation
    messages,   \* this.messages, the conversation: the kind of each message
    wf,         \* the CheckInWorkflow run: its position, its locals, what it did
    runs,       \* CheckInWorkflow runs created so far
    cycle,      \* check_ins, the length of messages and the clock when the run was created
    cron,       \* the executeDailyCheckIn invocation: its position, its send attempts
    user_preferences, \* the rows of table user_preferences
    upd,        \* per caller: the position and locals of its updateAgentName invocation
    get,        \* per caller: the position and locals of its getAgentName invocation
    chat,       \* the onChatMessage invocation: its position, what it did
    prov,       \* the updateModelProvider invocation: its position and locals
    http        \* the latest HTTP request and the response it got

vars ==
    <<check_ins, state, today, now, time, nextId, call, pre, schedules, nextJob, start,
      messages, wf, runs, cycle, cron, user_preferences, upd, get, chat, prov,
      http>>

\* what the ledger's operations leave alone
notLedger ==
    <<time, schedules, nextJob, start, messages, wf, runs, cycle, cron, user_preferences,
      upd, get, chat, prov, http>>
\* what the scheduler's operations leave alone
notScheduler ==
    <<check_ins, today, now, time, nextId, call, pre, messages, wf, runs, cycle, cron,
      user_preferences, upd, get, chat, prov, http>>
\* what the check-in cycle's own steps leave alone
notCycle ==
    <<today, time, schedules, nextJob, start, user_preferences, upd, get, chat, prov,
      http>>
\* what the conversation's handler leaves alone
notChat ==
    <<today, time, schedules, nextJob, start, user_preferences, upd, get, prov, http>>
\* what the operations on the agent's name leave alone
notNames ==
    <<check_ins, today, now, time, nextId, call, pre, schedules, nextJob, start, messages,
      wf, runs, cycle, cron, chat, prov, http>>
\* what updateModelProvider leaves alone
notProvider ==
    <<check_ins, today, now, time, nextId, call, pre, schedules, nextJob, start, messages,
      wf, runs, cycle, cron, chat, upd, get, http>>
\* what a response leaves alone
notHttp ==
    <<check_ins, state, today, now, time, nextId, call, pre, schedules, nextJob, start,
      messages, wf, runs, cycle, cron, user_preferences, upd, get, chat, prov>>
ledgerVars == <<check_ins, state, now, nextId, call, pre>>

\* ------------------------------------------------------------------ strings

Str_positive == <<"p", "o", "s", "i", "t", "i", "v", "e">>
Str_neutral == <<"n", "e", "u", "t", "r", "a", "l">>
Str_negative == <<"n", "e", "g", "a", "t", "i", "v", "e">>
Str_POSITIVE == <<"P", "O", "S", "I", "T", "I", "V", "E">>
Str_bogus == <<"b", "o", "g", "u", "s">>
Str_empty == <<>>

UpperChars ==
    <<"A", "B", "C", "D", "E", "F", "G", "H", "I", "J", "K", "L", "M",
      "N", "O", "P", "Q", "R", "S", "T", "U", "V", "W", "X", "Y", "Z">>
LowerChars ==
    <<"a", "b", "c", "d", "e", "f", "g", "h", "i", "j", "k", "l", "m",
      "n", "o", "p", "q", "r", "s", "t", "u", "v", "w", "x", "y", "z">>

\* one character of String.prototype.toLowerCase
LowerChar(c) ==
    IF \E i \in DOMAIN UpperChars : UpperChars[i] = c
    THEN LowerChars[CHOOSE i \in DOMAIN UpperChars : UpperChars[i] = c]
    ELSE c

ToLowerCase(s) == [i \in DOMAIN s |-> LowerChar(s[i])]

\* ------------------------------------------------------- the cached state

Str_MindGuard == <<"M", "i", "n", "d", "G", "u", "a", "r", "d">>

\* { checkInTime: "09:00", timezone: "UTC", agentName: "MindGuard", modelProvider: "openai" }
DefaultPreferences ==
    [checkInTime |-> <<"0", "9", ":", "0", "0">>, timezone |-> "UTC",
     agentName |-> Str_MindGuard, modelProvider |-> "openai"]

\* this.state before any setState: undefined. hasDailyCheckIns: the state object
\* has a dailyCheckIns array (a state that a preference update created has none)
NoState ==
    [defined |-> FALSE, userId |-> "", hasDailyCheckIns |-> FALSE, dailyCheckIns |-> <<>>,
     lastCheckIn |-> 0, preferences |-> DefaultPreferences]

\* this.state?.userId || "default"
StateUserId == IF state.defined /\ state.userId # "" THEN state.userId ELSE "default"

\* this.state?.preferences || { defaults }
StatePreferences == IF state.defined THEN state.preferences ELSE DefaultPreferences

\* --------------------------------------------------------------- saveCheckIn

NoId == 0

IdleCall ==
    [pc |-> "idle", via |-> "none", toneArg |-> Str_empty,
     emotionalTone |-> Str_empty, summary |-> "",
     recommendations |-> <<>>, checkInId |-> NoId, userId |-> "", date |-> 0,
     existing |-> NoId, result |-> "none"]

\* const validTones = ["positive", "neutral", "negative"]
validTones == {Str_positive, Str_neutral, Str_negative}

\* a validation that compares the tone as it was given
ValidatedToneCaseSensitive(emotionalTone) ==
    IF emotionalTone \in validTones THEN emotionalTone ELSE Str_neutral

\* if (!validTones.includes(emotionalTone.toLowerCase())) emotionalTone = "neutral"
ValidatedTone(emotionalTone) ==
    IF ToLowerCase(emotionalTone) \in validTones THEN emotionalTone ELSE Str_neutral

\* the arguments a caller can pass; recommendations is [isArray, items]
SaveInputs ==
    {[emotionalTone |-> Str_POSITIVE, summary |-> "s1",
      recommendations |-> [isArray |-> TRUE, items |-> <<"r1", "r2">>]],
     [emotionalTone |-> Str_bogus, summary |-> "s2",
      recommendations |-> [isArray |-> TRUE, items |-> <<>>]],
     [emotionalTone |-> Str_empty, summary |-> "s1",
      recommendations |-> [isArray |-> TRUE, items |-> <<"r1">>]],
     [emotionalTone |-> Str_negative, summary |-> "",
      recommendations |-> [isArray |-> TRUE, items |-> <<"r1">>]],
     [emotionalTone |-> Str_negative, summary |-> "s2",
      recommendations |-> [isArray |-> FALSE, items |-> <<>>]]}

\* SELECT id FROM check_ins WHERE user_id = userId AND date = date LIMIT 1:
\* the ids the query can return (NoId when no row matches)
SelectExisting(rows, userId, date) ==
    LET found == {r.id : r \in {x \in rows : x.user_id = userId /\ x.date = date}}
    IN  IF found = {} THEN {NoId} ELSE found

\* a write that never looks at the existence check: always INSERT
WriteCheckInAlwaysInsert(rows, existing, row) == rows \cup {row}

\* the table after the UPDATE (a row was found) or the INSERT (none was)
WriteCheckIn(rows, existing, row) ==
    IF existing # NoId
    THEN {IF r.id = existing
          THEN [r EXCEPT !.emotional_tone = row.emotional_tone, !.summary = row.summary,
                         !.recommendations = row.recommendations,
                         !.created_at = row.created_at]
          ELSE r : r \in rows}
    ELSE rows \cup {row}

\* updatedCheckIns after findIndex and the replace or push
UpdatedCheckIns(list, entry) ==
    IF \E i \in DOMAIN list : list[i].date = entry.date
    THEN LET existingIndex == CHOOSE i \in DOMAIN list :
                 /\ list[i].date = entry.date
                 /\ \A j \in DOMAIN list : list[j].date = entry.date => i <= j
         IN  [list EXCEPT ![existingIndex] = entry]
    ELSE Append(list, entry)

Throw(p) == call' = [call EXCEPT ![p].pc = "done", ![p].result = "threw"]

\* a validation without the Array.isArray test
ValidationFailsNoArrayTest(emotionalTone, summary, recommendations) ==
    emotionalTone = Str_empty \/ summary = ""

\* a validation that lets a missing tone through
ValidationFailsToneOptional(emotionalTone, summary, recommendations) ==
    summary = "" \/ ~recommendations.isArray

\* if (!emotionalTone || !summary) throw ...; if (!Array.isArray(recommendations)) throw ...
ValidationFails(emotionalTone, summary, recommendations) ==
    emotionalTone = Str_empty \/ summary = "" \/ ~recommendations.isArray

\* saveCheckIn up to the await of the SELECT
SaveCheckInSelect(p, via, emotionalTone, summary, recommendations) ==
    /\ call[p].pc = "idle"
    /\ pre' = [check_ins |-> check_ins, state |-> state]
    /\ UNCHANGED <<check_ins, state, today, now>>
    /\ UNCHANGED notLedger
    /\ LET started == [IdleCall EXCEPT !.via = via, !.toneArg = emotionalTone,
                           !.emotionalTone = emotionalTone,
                           !.summary = summary, !.recommendations = recommendations]
       IN  IF ValidationFails(emotionalTone, summary, recommendations)
           THEN /\ call' = [call EXCEPT ![p] = [started EXCEPT !.pc = "done", !.result = "threw"]]
                /\ UNCHANGED nextId
           ELSE /\ nextId' = nextId + 1
                /\ \E sqlFails \in BOOLEAN :
                     IF sqlFails
                     THEN call' = [call EXCEPT ![p] =
                              [started EXCEPT !.pc = "done", !.result = "threw",
                                   !.emotionalTone = ValidatedTone(emotionalTone),
                                   !.checkInId = nextId, !.userId = StateUserId,
                                   !.date = today]]
                     ELSE \E found \in SelectExisting(check_ins, StateUserId, today) :
                            call' = [call EXCEPT ![p] =
                              [started EXCEPT !.pc = "selected",
                                   !.emotionalTone = ValidatedTone(emotionalTone),
                                   !.checkInId = nextId, !.userId = StateUserId,
                                   !.date = today, !.existing = found]]

\* a tool call: agent.saveCheckIn(emotionalTone, summary, recommendations)
ToolSaveCheckIn(p) ==
    \E in \in SaveInputs :
        SaveCheckInSelect(p, "tool", in.emotionalTone, in.summary, in.recommendations)

\* saveCheckIn from the SELECT's result to the await of the UPDATE or INSERT
SaveCheckInWrite(p) ==
    /\ call[p].pc = "selected"
    /\ UNCHANGED <<state, today, nextId, pre>>
    /\ UNCHANGED notLedger
    /\ \E sqlFails \in BOOLEAN :
         IF sqlFails
         THEN Throw(p) /\ UNCHANGED <<check_ins, now>>
         ELSE /\ check_ins' = WriteCheckIn(check_ins, call[p].existing,
                    [id |-> call[p].checkInId, user_id |-> call[p].userId,
                     date |-> call[p].date,
                     emotional_tone |-> ToLowerCase(call[p].emotionalTone),
                     summary |-> call[p].summary,
                     recommendations |-> call[p].recommendations.items,
                     created_at |-> now + 1])
              /\ now' = now + 1
              /\ call' = [call EXCEPT ![p].pc = "written"]

\* saveCheckIn from the write's result to the end: the state update
SaveCheckInSetState(p) ==
    /\ call[p].pc = "written"
    /\ UNCHANGED <<check_ins, today, now, nextId, pre>>
    /\ UNCHANGED notLedger
    /\ LET updatedCheckIns ==
               UpdatedCheckIns(state.dailyCheckIns,
                   [date |-> call[p].date,
                    emotionalTone |-> ToLowerCase(call[p].emotionalTone),
                    summary |-> call[p].summary,
                    recommendations |-> call[p].recommendations.items])
       IN  \E setStateFails \in BOOLEAN :
             IF setStateFails
             THEN /\ Throw(p)
                  \* updatedCheckIns is this.state.dailyCheckIns itself when the state
                  \* exists: the replace or push has already changed it
                  /\ state' = IF state.defined /\ state.hasDailyCheckIns
                              THEN [state EXCEPT !.dailyCheckIns = updatedCheckIns]
                              ELSE state
             ELSE /\ state' = [defined |-> TRUE, userId |-> call[p].userId,
                               hasDailyCheckIns |-> TRUE,
                               lastCheckIn |-> call[p].date,
                               dailyCheckIns |-> updatedCheckIns,
                               preferences |-> StatePreferences]
                  /\ call' = [call EXCEPT ![p].pc = "done", ![p].result = "ok"]

\* the caller has the outcome and may call again
SaveCheckInReturn(p) ==
    /\ call[p].pc = "done"
    /\ call' = [call EXCEPT ![p] = IdleCall]
    /\ UNCHANGED <<check_ins, state, today, now, nextId, pre>>
    /\ UNCHANGED notLedger

\* midnight passes
NextDay ==
    /\ today' = today + 1
    /\ now' = now + 1
    /\ UNCHANGED <<check_ins, state, nextId, call, pre>>
    /\ UNCHANGED notLedger

\* ------------------------------------------------------- getCheckInHistory

\* the oldest first: ORDER BY created_at ASC
HistoryOrderAscending(a, b) == a.created_at <= b.created_at

\* ORDER BY created_at DESC: whether row a may come before row b
HistoryOrder(a, b) == a.created_at >= b.created_at

\* the results getCheckInHistory(limit) can return: the rows of
\* SELECT * FROM check_ins WHERE user_id = userId ORDER BY created_at DESC LIMIT limit
\* (rows with equal created_at in either order), or [] when the query threw
GetCheckInHistory(rows, userId, limit) ==
    LET mine == {r \in rows : r.user_id = userId}
        k == IF limit < Cardinality(mine) THEN limit ELSE Cardinality(mine)
    IN  {<<>>} \cup
        {res \in [1 .. k -> mine] :
            /\ \A i, j \in 1 .. k : i < j => (res[i] # res[j] /\ HistoryOrder(res[i], res[j]))
            /\ \A r \in mine :
                  (\A i \in 1 .. k : res[i] # r) => \A i \in 1 .. k : HistoryOrder(res[i], r)}

\* ------------------------------------------------------ scheduleDailyCheckIn

Digits == {"0", "1", "2", "3", "4", "5", "6", "7", "8", "9"}

\* a test of the shape only: /^[0-9]?[0-9]:[0-9][0-9]$/
TimeRegexTestShapeOnly(t) ==
    \/ Len(t) = 5 /\ t[3] = ":" /\ \A i \in {1, 2, 4, 5} : t[i] \in Digits
    \/ Len(t) = 4 /\ t[2] = ":" /\ \A i \in {1, 3, 4} : t[i] \in Digits

\* /^([0-1]?[0-9]|2[0-3]):[0-5][0-9]$/.test(t)
TimeRegexTest(t) ==
    \/ /\ Len(t) = 5
       /\ \/ t[1] \in {"0", "1"} /\ t[2] \in Digits
          \/ t[1] = "2" /\ t[2] \in {"0", "1", "2", "3"}
       /\ t[3] = ":"
       /\ t[4] \in {"0", "1", "2", "3", "4", "5"}
       /\ t[5] \in Digits
    \/ /\ Len(t) = 4
       /\ t[1] \in Digits
       /\ t[2] = ":"
       /\ t[3] \in {"0", "1", "2", "3", "4", "5"}
       /\ t[4] \in Digits

\* the check-in times a state can hold (the state is also set by clients)
TimeInputs ==
    {<<"0", "9", ":", "0", "0">>, <<"7", ":", "3", "0">>, <<"2", "3", ":", "5", "9">>,
     <<"2", "5", ":", "9", "9">>, <<"9", ":", "6", "0">>, <<>>}

\* this.state?.preferences?.checkInTime || "09:00"
CheckInTime ==
    IF state.defined /\ state.preferences.checkInTime # <<>>
    THEN state.preferences.checkInTime
    ELSE <<"0", "9", ":", "0", "0">>

\* a cron expression is the sequence of its five fields (minute, hour, day of month,
\* month, day of week), each field the sequence of its characters
Star == <<"*">>

\* const cronPattern = "* * * * *"
cronPattern == <<Star, Star, Star, Star, Star>>

IdleStart == [pc |-> "idle", listedDaily |-> FALSE]

DailyJobs(jobs) == {j \in jobs : j.callback = "executeDailyCheckIn"}

\* a check that never finds the daily job
HasDailyCheckInNever(q, jobs) == FALSE

\* a check made on the jobs listed when the invocation started, before its awaits
HasDailyCheckInStale(q, jobs) == start[q].listedDaily

\* existingSchedules.some(schedule => schedule.callback === "executeDailyCheckIn")
HasDailyCheckIn(q, jobs) == DailyJobs(jobs) # {}

\* this.schedule(when, callback, payload): the job is in the agent's schedule table
\* from the call on, before the promise it returns settles
Schedule(jobs, id, when, callback, payload) ==
    jobs \cup {[id |-> id, callback |-> callback, when |-> when, payload |-> payload]}

\* onStart up to the await of initializeDatabase
OnStartBegin(q) ==
    /\ start[q].pc = "idle"
    /\ start' = [start EXCEPT ![q] = [pc |-> "init", listedDaily |-> DailyJobs(schedules) # {}]]
    /\ UNCHANGED <<state, schedules, nextJob>>
    /\ UNCHANGED notScheduler

\* a scheduleDailyCheckIn that cancels the daily job it finds and schedules it anew
ScheduleDailyCheckInRescheduling(q) ==
    /\ start[q].pc = "init"
    /\ UNCHANGED state
    /\ UNCHANGED notScheduler
    /\ IF ~TimeRegexTest(CheckInTime)
       THEN /\ start' = [start EXCEPT ![q].pc = "done"]
            /\ UNCHANGED <<schedules, nextJob>>
       ELSE /\ nextJob <= MaxJobs
            /\ schedules' = Schedule(schedules \ DailyJobs(schedules), nextJob, cronPattern,
                                "executeDailyCheckIn", "Daily wellness check-in")
            /\ nextJob' = nextJob + 1
            /\ start' = [start EXCEPT ![q].pc = "scheduled"]

\* scheduleDailyCheckIn from its start to the await of this.schedule (or to its return)
ScheduleDailyCheckIn(q) ==
    /\ start[q].pc = "init"
    /\ UNCHANGED state
    /\ UNCHANGED notScheduler
    /\ IF ~TimeRegexTest(CheckInTime)
       THEN /\ start' = [start EXCEPT ![q].pc = "done"]
            /\ UNCHANGED <<schedules, nextJob>>
       ELSE IF ~HasDailyCheckIn(q, schedules)
            THEN /\ nextJob <= MaxJobs
                 /\ schedules' = Schedule(schedules, nextJob, cronPattern,
                                     "executeDailyCheckIn", "Daily wellness check-in")
                 /\ nextJob' = nextJob + 1
                 /\ start' = [start EXCEPT ![q].pc = "scheduled"]
            ELSE /\ start' = [start EXCEPT ![q].pc = "done"]
                 /\ UNCHANGED <<schedules, nextJob>>

\* scheduleDailyCheckIn after the await of this.schedule: the verification and its logs
ScheduleDailyCheckInVerify(q) ==
    /\ start[q].pc = "scheduled"
    /\ start' = [start EXCEPT ![q].pc = "done"]
    /\ UNCHANGED <<state, schedules, nextJob>>
    /\ UNCHANGED notScheduler

\* onStart has returned; the instance can wake again
OnStartReturn(q) ==
    /\ start[q].pc = "done"
    /\ start' = [start EXCEPT ![q] = IdleStart]
    /\ UNCHANGED <<state, schedules, nextJob>>
    /\ UNCHANGED notScheduler

\* the scheduleTask tool: agent.schedule(input, "executeTask", description); the input
\* is a delay or a date (no cron expression: <<>>) or a cron expression ("0 8 * * *")
ScheduleTask ==
    /\ nextJob <= MaxJobs
    /\ \E when \in {<<>>, <<<<"0">>, <<"8">>, Star, Star, Star>>} :
         schedules' = Schedule(schedules, nextJob, when, "executeTask", "task")
    /\ nextJob' = nextJob + 1
    /\ UNCHANGED <<state, start>>
    /\ UNCHANGED notScheduler

\* the cancelScheduledTask tool: agent.cancelSchedule(taskId)
CancelSchedule ==
    /\ \E j \in schedules : schedules' = schedules \ {j}
    /\ UNCHANGED <<state, nextJob, start>>
    /\ UNCHANGED notScheduler

\* ------------------------------------------- POST /internal/save-check-in

\* const { emotionalTone, summary, recommendations = [] } = body;
\* the body's recommendations is [given, isArray, items]
BodyRecommendations(body) ==
    IF body.recommendations.given
    THEN [isArray |-> body.recommendations.isArray, items |-> body.recommendations.items]
    ELSE [isArray |-> TRUE, items |-> <<>>]

\* the handler up to its response 400, or into saveCheckIn up to the await of the SELECT
HttpSaveCheckIn(p, body) ==
    IF body.emotionalTone = Str_empty \/ body.summary = ""
    THEN /\ call[p].pc = "idle"
         /\ call' = [call EXCEPT ![p] =
                [IdleCall EXCEPT !.via = "http", !.toneArg = body.emotionalTone,
                     !.summary = body.summary,
                     !.recommendations = BodyRecommendations(body),
                     !.pc = "done", !.result = "rejected"]]
         /\ pre' = [check_ins |-> check_ins, state |-> state]
         /\ UNCHANGED <<check_ins, state, today, now, nextId>>
         /\ UNCHANGED notLedger
    ELSE SaveCheckInSelect(p, "http", body.emotionalTone, body.summary,
             BodyRecommendations(body))

\* the bodies a client can post; a field that is absent reads as empty
SaveBodies ==
    {[emotionalTone |-> Str_empty, summary |-> "s1",
      recommendations |-> [given |-> TRUE, isArray |-> TRUE, items |-> <<"r1">>]],
     [emotionalTone |-> Str_negative, summary |-> "",
      recommendations |-> [given |-> TRUE, isArray |-> TRUE, items |-> <<"r1">>]],
     [emotionalTone |-> Str_negative, summary |-> "s2",
      recommendations |-> [given |-> FALSE, isArray |-> FALSE, items |-> <<>>]],
     [emotionalTone |-> Str_POSITIVE, summary |-> "s1",
      recommendations |-> [given |-> TRUE, isArray |-> FALSE, items |-> <<>>]]}

\* a client's POST /internal/save-check-in
PostSaveCheckIn(p) == \E body \in SaveBodies : HttpSaveCheckIn(p, body)

\* the status of the handler's response
HttpStatus(p) ==
    CASE call[p].result = "ok" -> 200
      [] call[p].result = "rejected" -> 400
      [] OTHER -> 500

\* ------------------------------------------------------------ the endpoints

Str_good == <<"g", "o", "o", "d">>
Str_great == <<"g", "r", "e", "a", "t">>
Str_happy == <<"h", "a", "p", "p", "y">>
Str_excited == <<"e", "x", "c", "i", "t", "e", "d">>
Str_bad == <<"b", "a", "d">>
Str_sad == <<"s", "a", "d">>
Str_angry == <<"a", "n", "g", "r", "y">>
Str_worried == <<"w", "o", "r", "r", "i", "e", "d">>
Str_anxious == <<"a", "n", "x", "i", "o", "u", "s">>

\* String.prototype.includes
Includes(s, sub) ==
    \E i \in 0 .. (Len(s) - Len(sub)) : SubSeq(s, i + 1, i + Len(sub)) = sub

\* POST /internal/analyze-tone: the keyword heuristic
AnalyzeTone(message) ==
    LET lowerMessage == ToLowerCase(message)
    IN  IF \E w \in {Str_good, Str_great, Str_happy, Str_excited} : Includes(lowerMessage, w)
        THEN [tone |-> Str_positive, intensity |-> 7]
        ELSE IF \E w \in {Str_bad, Str_sad, Str_angry, Str_worried, Str_anxious} :
                    Includes(lowerMessage, w)
             THEN [tone |-> Str_negative, intensity |-> 7]
             ELSE [tone |-> Str_neutral, intensity |-> 5]

\* const recommendations = { positive: [...], neutral: [...], negative: [...] }, and
\* recommendations[toneKey] || recommendations.neutral
ToneTable(toneKey) ==
    CASE toneKey = Str_positive ->
           <<"gratitude journaling", "share your positive energy", "set new goals">>
      [] toneKey = Str_negative ->
           <<"4-7-8 breathing", "write down your feelings",
             "talk to a trusted friend or professional">>
      [] OTHER ->
           <<"mindful walk", "deep breathing", "try a new hobby">>

\* POST /internal/get-recommendations; the handler does not read the body's intensity
Recommendations(emotionalTone, intensity) == ToneTable(ToLowerCase(emotionalTone))

\* an assistant message: what it is and, of its text, the lines that list
\* recommendations
Assistant(kind) == [role |-> "assistant", kind |-> kind, lines |-> <<>>]

\* ------------------------------------------------------- CheckInWorkflow.run

\* what a fetch of an endpoint can come to: the handler ran and answered 200, the
\* response was not OK, or fetch itself threw
FetchOutcomes == {"ok", "notOk", "threw"}

\* the texts of the user's reply event
ReplyInputs ==
    {<<"G", "r", "e", "a", "t", "!">>, <<"s", "o", " ", "s", "a", "d">>, <<"f", "i", "n", "e">>}

NoRun ==
    [pc |-> "none", userResponseText |-> <<>>,
     analysis |-> [tone |-> <<>>, intensity |-> 0], recommendations |-> <<>>, log |-> <<>>,
     crashes |-> 0]

NewRun == [NoRun EXCEPT !.pc = "send-check-in-message"]

Logged(step, outcome) == [step |-> step, outcome |-> outcome]

\* a save step that does not look at response.ok
StepThrowsSaveUnchecked(step, outcome) ==
    IF step \in {"handle-timeout", "save-check-in"} THEN outcome = "threw" ELSE outcome # "ok"

\* a prompt step that does not look at response.ok
StepThrowsPromptUnchecked(step, outcome) ==
    IF step \in {"handle-timeout", "send-check-in-message"}
    THEN outcome = "threw"
    ELSE outcome # "ok"

\* whether the step's callback throws: every step but handle-timeout throws on
\* !response.ok; a fetch that throws ends any of them
StepThrows(step, outcome) ==
    IF step = "handle-timeout" THEN outcome = "threw" ELSE outcome # "ok"

\* the summary sent before the check-in is saved
NextStepSummaryFirst(step) ==
    CASE step = "send-check-in-message" -> "waitForEvent"
      [] step = "analyze-emotional-tone" -> "generate-recommendations"
      [] step = "generate-recommendations" -> "send-summary"
      [] step = "send-summary" -> "save-check-in"
      [] step = "save-check-in" -> "completed"
      [] step = "handle-timeout" -> "completed"

\* the timeout block without its else: it runs after the summary as well
NextStepNoElse(step) ==
    CASE step = "send-check-in-message" -> "waitForEvent"
      [] step = "analyze-emotional-tone" -> "generate-recommendations"
      [] step = "generate-recommendations" -> "save-check-in"
      [] step = "save-check-in" -> "send-summary"
      [] step = "send-summary" -> "handle-timeout"
      [] step = "handle-timeout" -> "completed"

\* the order of the steps in run()
NextStep(step) ==
    CASE step = "send-check-in-message" -> "waitForEvent"
      [] step = "analyze-emotional-tone" -> "generate-recommendations"
      [] step = "generate-recommendations" -> "save-check-in"
      [] step = "save-check-in" -> "send-summary"
      [] step = "send-summary" -> "completed"
      [] step = "handle-timeout" -> "completed"

\* a timeout that is taken for a reply
AfterWaitAlwaysReply(gotEvent) == "analyze-emotional-tone"

\* if (userResponseEvent) { ... } else { ... }
AfterWait(gotEvent) == IF gotEvent THEN "analyze-emotional-tone" ELSE "handle-timeout"

\* the run after step.do(step, ...) with the given outcome of its fetch
AfterStep(step, outcome) ==
    [wf EXCEPT !.log = Append(@, Logged(step, outcome)),
               !.pc = IF StepThrows(step, outcome) THEN "failed" ELSE NextStep(step)]

RunOver == wf.pc \in {"none", "completed", "failed"}

\* CHECKIN_WORKFLOW.create(...): a new run
WfCreate ==
    /\ RunOver
    /\ runs < MaxRuns
    /\ wf' = NewRun
    /\ runs' = runs + 1
    /\ cycle' = [check_ins |-> check_ins, messages |-> Len(messages), now |-> now]
    /\ UNCHANGED <<messages, cron>>
    /\ UNCHANGED ledgerVars
    /\ UNCHANGED notCycle

\* a numbering that starts at 0: `${i}. ${r}`
SummaryLineZeroBased(r, i) == ToString(i) \o ". " \o r

\* (r, i) => `${i + 1}. ${r}`, i being the index of r in the array
SummaryLine(r, i) == ToString(i + 1) \o ". " \o r

\* recommendationsResult.recommendations?.map(...).join('\n'), line by line
SummaryLines(recommendations) ==
    [n \in DOMAIN recommendations |-> SummaryLine(recommendations[n], n - 1)]

\* the message the handler behind a step appends to the conversation
StepMessage(step) ==
    CASE step = "send-check-in-message" -> Assistant("check-in-prompt")
      [] step = "send-summary" ->
           [Assistant("summary") EXCEPT !.lines = SummaryLines(wf.recommendations)]
      [] step = "handle-timeout" -> Assistant("reminder")

\* step 1, with the handler of POST /internal/send-check-in-message
WfSendCheckInMessage ==
    /\ wf.pc = "send-check-in-message"
    /\ \E outcome \in FetchOutcomes :
         /\ wf' = AfterStep("send-check-in-message", outcome)
         /\ messages' = IF outcome = "ok"
                        THEN Append(messages, StepMessage("send-check-in-message"))
                        ELSE messages
    /\ UNCHANGED <<runs, cycle, cron>>
    /\ UNCHANGED ledgerVars
    /\ UNCHANGED notCycle

\* an event that a run which is over takes as well, going on at the reply branch
SendEventToFinishedRun(text) ==
    /\ wf.pc \in {"waitForEvent", "completed", "failed"}
    /\ wf' = [wf EXCEPT !.userResponseText = text,
                        !.log = Append(@, Logged("waitForEvent", "event")),
                        !.pc = AfterWait(TRUE)]
    /\ UNCHANGED <<messages, runs, cycle, cron>>
    /\ UNCHANGED ledgerVars
    /\ UNCHANGED notCycle

\* step 2 ends with the event: instance.sendEvent("user-check-in-response", ...)
SendEvent(text) ==
    /\ wf.pc = "waitForEvent"
    /\ wf' = [wf EXCEPT !.userResponseText = text,
                        !.log = Append(@, Logged("waitForEvent", "event")),
                        !.pc = AfterWait(TRUE)]
    /\ UNCHANGED <<messages, runs, cycle, cron>>
    /\ UNCHANGED ledgerVars
    /\ UNCHANGED notCycle

\* a wait registered without a timeout: it ends with the event only
WaitTimeoutNever ==
    /\ wf.pc = "waitForEvent"
    /\ FALSE
    /\ UNCHANGED vars

\* step 2 ends with the timeout: waitForEvent gives no event
WaitTimeout ==
    /\ wf.pc = "waitForEvent"
    /\ wf' = [wf EXCEPT !.log = Append(@, Logged("waitForEvent", "timeout")),
                        !.pc = AfterWait(FALSE)]
    /\ UNCHANGED <<messages, runs, cycle, cron>>
    /\ UNCHANGED ledgerVars
    /\ UNCHANGED notCycle

\* step 3, with the handler of POST /internal/analyze-tone
WfAnalyze ==
    /\ wf.pc = "analyze-emotional-tone"
    /\ \E outcome \in FetchOutcomes :
         wf' = [AfterStep("analyze-emotional-tone", outcome) EXCEPT
                   !.analysis = IF outcome = "ok"
                                THEN AnalyzeTone(wf.userResponseText)
                                ELSE @]
    /\ UNCHANGED <<messages, runs, cycle, cron>>
    /\ UNCHANGED ledgerVars
    /\ UNCHANGED notCycle

\* intensity: analysis.intensity || 5
IntensityOrDefault(analysis) == IF analysis.intensity = 0 THEN 5 ELSE analysis.intensity

\* step 4, with the handler of POST /internal/get-recommendations
WfRecommend ==
    /\ wf.pc = "generate-recommendations"
    /\ \E outcome \in FetchOutcomes :
         wf' = [AfterStep("generate-recommendations", outcome) EXCEPT
                   !.recommendations = IF outcome = "ok"
                                       THEN Recommendations(wf.analysis.tone,
                                                IntensityOrDefault(wf.analysis))
                                       ELSE @]
    /\ UNCHANGED <<messages, runs, cycle, cron>>
    /\ UNCHANGED ledgerVars
    /\ UNCHANGED notCycle

\* `Daily check-in: User reported feeling ${analysis.tone}. Response: ...`
WfSummary(tone) ==
    CASE tone = Str_positive -> "Daily check-in: positive"
      [] tone = Str_negative -> "Daily check-in: negative"
      [] OTHER -> "Daily check-in: neutral"

WfSaveBody ==
    [emotionalTone |-> wf.analysis.tone, summary |-> WfSummary(wf.analysis.tone),
     recommendations |-> [given |-> TRUE, isArray |-> TRUE, items |-> wf.recommendations]]

\* step 5: the request reaches the handler of POST /internal/save-check-in
WfSaveRequest ==
    /\ wf.pc = "save-check-in"
    /\ call[WfCaller].pc = "idle"
    /\ HttpSaveCheckIn(WfCaller, WfSaveBody)

\* step 5: fetch throws and no request reaches the handler
WfSaveFetchThrows ==
    /\ wf.pc = "save-check-in"
    /\ call[WfCaller].pc = "idle"
    /\ wf' = AfterStep("save-check-in", "threw")
    /\ UNCHANGED <<messages, runs, cycle, cron>>
    /\ UNCHANGED ledgerVars
    /\ UNCHANGED notCycle

\* step 5: the handler's response: 200 after saveCheckIn returned, 500 after it threw
WfSaveResponse ==
    /\ wf.pc = "save-check-in"
    /\ call[WfCaller].pc = "done"
    /\ wf' = AfterStep("save-check-in", IF HttpStatus(WfCaller) = 200 THEN "ok" ELSE "notOk")
    /\ call' = [call EXCEPT ![WfCaller] = IdleCall]
    /\ UNCHANGED <<check_ins, state, now, nextId, pre>>
    /\ UNCHANGED <<messages, runs, cycle, cron>>
    /\ UNCHANGED notCycle

\* step 6, with the handler of POST /internal/send-message
WfSendSummary ==
    /\ wf.pc = "send-summary"
    /\ \E outcome \in FetchOutcomes :
         /\ wf' = AfterStep("send-summary", outcome)
         /\ messages' = IF outcome = "ok"
                        THEN Append(messages, StepMessage("send-summary"))
                        ELSE messages
    /\ UNCHANGED <<runs, cycle, cron>>
    /\ UNCHANGED ledgerVars
    /\ UNCHANGED notCycle

\* the timeout branch, with the handler of POST /internal/send-message
WfHandleTimeout ==
    /\ wf.pc = "handle-timeout"
    /\ \E outcome \in FetchOutcomes :
         /\ wf' = AfterStep("handle-timeout", outcome)
         /\ messages' = IF outcome = "ok"
                        THEN Append(messages, StepMessage("handle-timeout"))
                        ELSE messages
    /\ UNCHANGED <<runs, cycle, cron>>
    /\ UNCHANGED ledgerVars
    /\ UNCHANGED notCycle

\* ------------------------------------------- the workflow's host stops

\* the host stops between two steps and run() is replayed: every step that has a
\* recorded result returns it without running its callback, and the run is where it was
WfRestartBetweenSteps ==
    /\ ~RunOver
    /\ wf.pc # "save-check-in" \/ call[WfCaller].pc = "idle"
    /\ wf.crashes < MaxCrashes
    /\ wf' = [wf EXCEPT !.crashes = @ + 1]
    /\ UNCHANGED <<messages, runs, cycle, cron>>
    /\ UNCHANGED ledgerVars
    /\ UNCHANGED notCycle

\* the host stops inside a message step, after the agent's handler appended the
\* message and before the step's result was recorded: the replay runs the step again
WfCrashInMessageStep(step) ==
    /\ wf.pc = step
    /\ wf.crashes < MaxCrashes
    /\ wf' = [wf EXCEPT !.crashes = @ + 1]
    /\ messages' = Append(messages, StepMessage(step))
    /\ UNCHANGED <<runs, cycle, cron>>
    /\ UNCHANGED ledgerVars
    /\ UNCHANGED notCycle

\* the host stops inside save-check-in, after the agent's handler finished and before
\* the step's result was recorded: the response is lost and the replay runs the step again
WfCrashInSaveStep ==
    /\ wf.pc = "save-check-in"
    /\ call[WfCaller].pc = "done"
    /\ wf.crashes < MaxCrashes
    /\ wf' = [wf EXCEPT !.crashes = @ + 1]
    /\ call' = [call EXCEPT ![WfCaller] = IdleCall]
    /\ UNCHANGED <<check_ins, state, now, nextId, pre>>
    /\ UNCHANGED <<messages, runs, cycle, cron>>
    /\ UNCHANGED notCycle

\* ------------------------------------------------------ executeDailyCheckIn

\* the toggle set to workflows
USE_WORKFLOWS_On == TRUE

\* private readonly USE_WORKFLOWS = false
USE_WORKFLOWS == FALSE

\* this.env.CHECKIN_WORKFLOW, the workflow binding of the deployment
CHECKIN_WORKFLOW == TRUE

\* due: the alarm of the daily job is set for the present minute and has not run;
\* firedAt: the day and minute of every invocation
IdleCron ==
    [pc |-> "idle", firings |-> 0, attempts |-> 0, delivered |-> 0, due |-> FALSE,
     firedAt |-> <<>>]

\* the catch block: the fallback send comes next
AfterFailedSend(c) == [c EXCEPT !.pc = "fallback"]

\* executeDailyCheckIn up to the end of its try block; it is fired by the daily job
\* or by POST /test-check-in
ExecuteDailyCheckIn ==
    /\ cron.pc \in {"idle", "done"}
    /\ UNCHANGED ledgerVars
    /\ UNCHANGED notCycle
    /\ LET fired == [cron EXCEPT !.firings = @ + 1, !.attempts = 0, !.delivered = 0,
                                 !.due = FALSE,
                                 !.firedAt = Append(@, [day |-> today, time |-> time])]
       IN  \E throws \in BOOLEAN :
             IF USE_WORKFLOWS /\ CHECKIN_WORKFLOW
             THEN IF throws \/ ~RunOver \/ runs >= MaxRuns
                  THEN /\ cron' = AfterFailedSend(fired)
                       /\ UNCHANGED <<messages, wf, runs, cycle>>
                  ELSE /\ cron' = [fired EXCEPT !.pc = "done"]
                       /\ wf' = NewRun
                       /\ runs' = runs + 1
                       /\ cycle' = [check_ins |-> check_ins, messages |-> Len(messages), now |-> now]
                       /\ UNCHANGED messages
             ELSE /\ UNCHANGED <<wf, runs, cycle>>
                  /\ IF throws
                     THEN /\ cron' = AfterFailedSend([fired EXCEPT !.attempts = 1])
                          /\ UNCHANGED messages
                     ELSE /\ cron' = [fired EXCEPT !.pc = "done", !.attempts = 1,
                                                   !.delivered = 1]
                          /\ messages' = Append(messages, Assistant("check-in-prompt"))

\* a catch block whose fallback send is not guarded: its error leaves the method
ExecuteDailyCheckInFallbackRethrows ==
    /\ cron.pc = "fallback"
    /\ UNCHANGED <<wf, runs, cycle>>
    /\ UNCHANGED ledgerVars
    /\ UNCHANGED notCycle
    /\ \E throws \in BOOLEAN :
         IF throws
         THEN /\ cron' = [cron EXCEPT !.pc = "threw", !.attempts = @ + 1]
              /\ UNCHANGED messages
         ELSE /\ cron' = [cron EXCEPT !.pc = "done", !.attempts = @ + 1,
                                      !.delivered = @ + 1]
              /\ messages' = Append(messages, Assistant("fallback-prompt"))

\* the catch block of executeDailyCheckIn: the fallback message
ExecuteDailyCheckInFallback ==
    /\ cron.pc = "fallback"
    /\ UNCHANGED <<wf, runs, cycle>>
    /\ UNCHANGED ledgerVars
    /\ UNCHANGED notCycle
    /\ \E throws \in BOOLEAN :
         IF throws
         THEN /\ cron' = [cron EXCEPT !.pc = "done", !.attempts = @ + 1]
              /\ UNCHANGED messages
         ELSE /\ cron' = [cron EXCEPT !.pc = "done", !.attempts = @ + 1,
                                      !.delivered = @ + 1]
              /\ messages' = Append(messages, Assistant("fallback-prompt"))

\* the handler of POST /test-check-in around its await of executeDailyCheckIn: the
\* response after the method returned, and the one of the handler's catch block
TestCheckInResponse(c) ==
    IF c.pc = "threw"
    THEN [status |-> 500, body |-> "error"]
    ELSE [status |-> 200, body |-> "success"]

\* ------------------------------------------------- the daily job's alarm

\* the minutes of the day that the clock shows, in their order
Instants ==
    <<[hour |-> 7, minute |-> 30], [hour |-> 9, minute |-> 0],
      [hour |-> 9, minute |-> 1], [hour |-> 23, minute |-> 59]>>

DigitChars == <<"0", "1", "2", "3", "4", "5", "6", "7", "8", "9">>

DigitValue(c) == (CHOOSE i \in DOMAIN DigitChars : DigitChars[i] = c) - 1

\* the number a field of digits stands for
RECURSIVE ParseInt(_)
ParseInt(field) ==
    IF field = <<>>
    THEN 0
    ELSE 10 * ParseInt(SubSeq(field, 1, Len(field) - 1)) + DigitValue(field[Len(field)])

\* a field matches a value when it is "*" or the value's number
CronFieldMatches(field, value) ==
    \/ field = Star
    \/ /\ field # <<>>
       /\ \A i \in DOMAIN field : field[i] \in Digits
       /\ ParseInt(field) = value

\* whether a job scheduled with the expression runs at the instant (every day, the
\* last three fields being "*")
CronMatches(when, instant) ==
    /\ Len(when) = 5
    /\ CronFieldMatches(when[1], instant.minute)
    /\ CronFieldMatches(when[2], instant.hour)
    /\ \A i \in 3 .. 5 : when[i] = Star

\* the clock reaches the next minute; the alarm of the daily job is set when the
\* job's expression matches it
ClockTick ==
    /\ ~cron.due
    /\ LET next == IF time < Len(Instants) THEN time + 1 ELSE 1
       IN  /\ time' = next
           /\ IF next = 1
              THEN today < MaxDays /\ today' = today + 1
              ELSE today' = today
           /\ cron' = [cron EXCEPT !.due =
                         \E j \in DailyJobs(schedules) : CronMatches(j.when, Instants[next])]
    /\ now' = now + 1
    /\ UNCHANGED <<check_ins, state, nextId, call, pre, schedules, nextJob, start,
                   messages, wf, runs, cycle, user_preferences, upd, get, chat, prov, http>>

\* the alarm runs the daily job's callback
AlarmFires ==
    /\ cron.due
    /\ cron.firings < MaxAlarms
    /\ ExecuteDailyCheckIn

\* ------------------------------------------------------- the agent's name

\* if (newName.length > 50)
MaxNameLength == 50

WhiteSpace == {" ", "\t"}

\* String.prototype.trim
Trim(s) ==
    IF \A i \in DOMAIN s : s[i] \in WhiteSpace
    THEN <<>>
    ELSE LET first == CHOOSE i \in DOMAIN s :
                          s[i] \notin WhiteSpace /\ \A j \in 1 .. (i - 1) : s[j] \in WhiteSpace
             last == CHOOSE i \in DOMAIN s :
                          s[i] \notin WhiteSpace /\ \A j \in (i + 1) .. Len(s) : s[j] \in WhiteSpace
         IN  SubSeq(s, first, last)

\* a name of n letters
Xs(n) == [i \in 1 .. n |-> "x"]

\* the names a caller can pass: none, blanks, padded, plain, of 50 and of 51 letters,
\* and one of 49 letters that two blanks bring to 51 characters
NameInputs ==
    {<<>>, <<" ", "\t">>, <<" ", "S", "a", "g", "e", " ">>, <<"S", "a", "g", "e">>,
     Xs(MaxNameLength), Xs(MaxNameLength + 1), Xs(MaxNameLength - 1) \o <<" ", " ">>}

\* a validation that measures the trimmed name
NameInvalidTrimmedLength(newName) ==
    \/ newName = <<>>
    \/ Len(Trim(newName)) = 0
    \/ Len(Trim(newName)) > MaxNameLength

\* if (!newName || newName.trim().length === 0) throw ...; if (newName.length > 50) throw ...
NameInvalid(newName) ==
    \/ newName = <<>>
    \/ Len(Trim(newName)) = 0
    \/ Len(newName) > MaxNameLength

\* the agent instances a client can be connected to: /agents/mindguard/<name>
Instances == {"default", "user-2"}

\* the agent instance that is modelled
ThisInstance == "default"

\* new URL("/agents/mindguard/default/internal/update-name", request.url): the agent
\* instance the worker sends a client's name update to
RoutedInstance(client) == "default"

IdleUpdate ==
    [pc |-> "idle", via |-> "none", client |-> "none", newName |-> <<>>, isString |-> TRUE,
     trimmedName |-> <<>>, userId |-> "", result |-> "none"]

IdleGet ==
    [pc |-> "idle", cached |-> <<>>, stored |-> <<>>, stateThrew |-> FALSE,
     sqlThrew |-> FALSE, failed |-> FALSE, name |-> <<>>]

\* SELECT agent_name FROM user_preferences WHERE user_id = userId LIMIT 1: the
\* agent_name of the row, nothing when there is no row
StoredName(rows, userId) ==
    IF \E r \in rows : r.user_id = userId
    THEN (CHOOSE r \in rows : r.user_id = userId).agent_name
    ELSE <<>>

\* INSERT INTO user_preferences (user_id, agent_name, updated_at) ...
\* ON CONFLICT(user_id) DO UPDATE SET agent_name = ...
UpsertAgentName(rows, userId, name) ==
    IF \E r \in rows : r.user_id = userId
    THEN {IF r.user_id = userId THEN [r EXCEPT !.agent_name = name] ELSE r : r \in rows}
    ELSE rows \cup {[user_id |-> userId, agent_name |-> name, model_provider |-> ""]}

\* updateAgentName up to the await of the upsert: the validation and the statement
UpdateAgentNameUpsert(p, via, client, newName) ==
    /\ upd[p].pc = "idle"
    /\ UNCHANGED <<state, get>>
    /\ UNCHANGED notNames
    /\ LET started == [IdleUpdate EXCEPT !.via = via, !.client = client, !.newName = newName]
       IN  IF NameInvalid(newName)
           THEN /\ upd' = [upd EXCEPT ![p] = [started EXCEPT !.pc = "done", !.result = "threw"]]
                /\ UNCHANGED user_preferences
           ELSE \E sqlFails \in BOOLEAN :
                  IF sqlFails
                  THEN /\ upd' = [upd EXCEPT ![p] =
                              [started EXCEPT !.pc = "done", !.result = "threw",
                                   !.userId = StateUserId, !.trimmedName = Trim(newName)]]
                       /\ UNCHANGED user_preferences
                  ELSE /\ upd' = [upd EXCEPT ![p] =
                              [started EXCEPT !.pc = "upserted", !.userId = StateUserId,
                                   !.trimmedName = Trim(newName)]]
                       /\ user_preferences' =
                              UpsertAgentName(user_preferences, StateUserId, Trim(newName))

\* a call from the agent's own code: agent.updateAgentName(newName)
CallUpdateAgentName(p) ==
    \E newName \in NameInputs : UpdateAgentNameUpsert(p, "call", ThisInstance, newName)

\* updateAgentName from the upsert's result to the end: the state update
UpdateAgentNameSetState(p) ==
    /\ upd[p].pc = "upserted"
    /\ UNCHANGED <<user_preferences, get>>
    /\ UNCHANGED notNames
    /\ \E setStateFails \in BOOLEAN :
         IF setStateFails
         THEN /\ upd' = [upd EXCEPT ![p].pc = "done", ![p].result = "threw"]
              /\ UNCHANGED state
         ELSE /\ upd' = [upd EXCEPT ![p].pc = "done", ![p].result = "ok"]
              /\ state' = [state EXCEPT !.defined = TRUE,
                                        !.preferences =
                                            [StatePreferences EXCEPT
                                                !.agentName = upd[p].trimmedName]]

\* the caller has the outcome and may call again
UpdateAgentNameReturn(p) ==
    /\ upd[p].pc = "done"
    /\ upd' = [upd EXCEPT ![p] = IdleUpdate]
    /\ UNCHANGED <<user_preferences, state, get>>
    /\ UNCHANGED notNames

\* the bodies a client can post: a name, no name, a name that is not a string
NameBodies ==
    {[name |-> n, isString |-> TRUE] : n \in NameInputs} \cup
    {[name |-> <<"4", "2">>, isString |-> FALSE]}

\* POST /internal/update-name: the handler up to its response 400, or into
\* updateAgentName up to the await of the upsert
HttpUpdateName(p, client, body) ==
    IF body.name = <<>> \/ ~body.isString
    THEN /\ upd[p].pc = "idle"
         /\ upd' = [upd EXCEPT ![p] =
                [IdleUpdate EXCEPT !.via = "http", !.client = client, !.newName = body.name,
                     !.isString = body.isString, !.pc = "done", !.result = "rejected"]]
         /\ UNCHANGED <<user_preferences, state, get>>
         /\ UNCHANGED notNames
    ELSE UpdateAgentNameUpsert(p, "http", client, body.name)

\* POST /api/update-agent-name of the worker: the request of a client of any agent
\* instance goes to the instance the worker names
ApiUpdateAgentName(p) ==
    \E client \in Instances, body \in NameBodies :
        /\ RoutedInstance(client) = ThisInstance
        /\ HttpUpdateName(p, client, body)

\* the status of the handler's response
HttpNameStatus(p) ==
    CASE upd[p].result = "ok" -> 200
      [] upd[p].result = "rejected" -> 400
      [] OTHER -> 500

\* a getAgentName whose inner catch throws the error on
AgentNameRethrows(stateThrows, cached, sqlThrows, stored) ==
    IF stateThrows
    THEN [failed |-> FALSE, name |-> Str_MindGuard]
    ELSE IF cached # <<>>
    THEN [failed |-> FALSE, name |-> cached]
    ELSE IF sqlThrows
    THEN [failed |-> TRUE, name |-> <<>>]
    ELSE IF stored # <<>>
    THEN [failed |-> FALSE, name |-> stored]
    ELSE [failed |-> FALSE, name |-> Str_MindGuard]

\* what getAgentName comes to: the cached name, else the row's, else "MindGuard";
\* both catch blocks end in "MindGuard"
AgentName(stateThrows, cached, sqlThrows, stored) ==
    IF stateThrows
    THEN [failed |-> FALSE, name |-> Str_MindGuard]
    ELSE IF cached # <<>>
    THEN [failed |-> FALSE, name |-> cached]
    ELSE IF sqlThrows
    THEN [failed |-> FALSE, name |-> Str_MindGuard]
    ELSE IF stored # <<>>
    THEN [failed |-> FALSE, name |-> stored]
    ELSE [failed |-> FALSE, name |-> Str_MindGuard]

\* this.state?.preferences?.agentName
CachedName == IF state.defined THEN state.preferences.agentName ELSE <<>>

\* getAgentName up to its return of the cached name or to the await of the SELECT
GetAgentNameBegin(p) ==
    /\ get[p].pc = "idle"
    /\ UNCHANGED <<user_preferences, state, upd>>
    /\ UNCHANGED notNames
    /\ \E stateThrows \in BOOLEAN, sqlThrows \in BOOLEAN :
         LET stored == StoredName(user_preferences, StateUserId)
             seen == [IdleGet EXCEPT !.cached = CachedName, !.stored = stored,
                                     !.stateThrew = stateThrows,
                                     !.sqlThrew = ~stateThrows /\ CachedName = <<>> /\ sqlThrows]
             out == AgentName(stateThrows, CachedName, sqlThrows, stored)
         IN  \* a read that the state answers does not reach the statement
             /\ (stateThrows \/ CachedName # <<>>) => ~sqlThrows
             /\ get' = [get EXCEPT ![p] =
                    [seen EXCEPT !.failed = out.failed, !.name = out.name,
                                 !.pc = IF stateThrows \/ CachedName # <<>> \/ sqlThrows
                                        THEN "done"
                                        ELSE "selected"]]

\* getAgentName from the SELECT's result to its return
GetAgentNameReturn(p) ==
    /\ get[p].pc = "selected"
    /\ get' = [get EXCEPT ![p].pc = "done"]
    /\ UNCHANGED <<user_preferences, state, upd>>
    /\ UNCHANGED notNames

\* the caller has the name and may call again
GetAgentNameEnd(p) ==
    /\ get[p].pc = "done"
    /\ get' = [get EXCEPT ![p] = IdleGet]
    /\ UNCHANGED <<user_preferences, state, upd>>
    /\ UNCHANGED notNames

\* ------------------------------------------------------ the model provider

\* the providers POST /internal/update-model-provider lets through
Providers == {"openai", "workers-ai"}

IdleProvider == [pc |-> "idle", provider |-> "", userId |-> "", result |-> "none"]

\* INSERT INTO user_preferences (user_id, model_provider, updated_at) ...
\* ON CONFLICT(user_id) DO UPDATE SET model_provider = ...
UpsertModelProvider(rows, userId, provider) ==
    IF \E r \in rows : r.user_id = userId
    THEN {IF r.user_id = userId THEN [r EXCEPT !.model_provider = provider] ELSE r : r \in rows}
    ELSE rows \cup {[user_id |-> userId, agent_name |-> <<>>, model_provider |-> provider]}

\* this.state?.preferences?.timezone || "UTC"
Timezone ==
    IF state.defined /\ state.preferences.timezone # "" THEN state.preferences.timezone ELSE "UTC"

\* preferences that take the defaults for the agent's name too, whatever the state holds
ProviderPreferencesDefaultName(provider) ==
    [checkInTime |-> CheckInTime, timezone |-> Timezone, agentName |-> Str_MindGuard,
     modelProvider |-> provider]

\* { ...this.state?.preferences, modelProvider: provider, checkInTime: ... || "09:00",
\*   timezone: ... || "UTC", agentName: ... || "MindGuard" }
ProviderPreferences(provider) ==
    [checkInTime |-> CheckInTime, timezone |-> Timezone,
     agentName |-> IF CachedName # <<>> THEN CachedName ELSE Str_MindGuard,
     modelProvider |-> provider]

\* POST /internal/update-model-provider with a valid provider: updateModelProvider up
\* to the await of the upsert
UpdateModelProviderUpsert(provider) ==
    /\ prov.pc = "idle"
    /\ UNCHANGED state
    /\ UNCHANGED notProvider
    /\ LET started == [IdleProvider EXCEPT !.provider = provider, !.userId = StateUserId]
       IN  \E sqlFails \in BOOLEAN :
             IF sqlFails
             THEN /\ prov' = [started EXCEPT !.pc = "done", !.result = "threw"]
                  /\ UNCHANGED user_preferences
             ELSE /\ prov' = [started EXCEPT !.pc = "upserted"]
                  /\ user_preferences' =
                         UpsertModelProvider(user_preferences, StateUserId, provider)

\* updateModelProvider from the upsert's result to the end: the state update
UpdateModelProviderSetState ==
    /\ prov.pc = "upserted"
    /\ UNCHANGED user_preferences
    /\ UNCHANGED notProvider
    /\ \E setStateFails \in BOOLEAN :
         IF setStateFails
         THEN /\ prov' = [prov EXCEPT !.pc = "done", !.result = "threw"]
              /\ UNCHANGED state
         ELSE /\ prov' = [prov EXCEPT !.pc = "done", !.result = "ok"]
              /\ state' = [state EXCEPT !.defined = TRUE,
                                        !.preferences = ProviderPreferences(prov.provider)]

\* the handler has answered and the next request can come
UpdateModelProviderReturn ==
    /\ prov.pc = "done"
    /\ prov' = IdleProvider
    /\ UNCHANGED <<user_preferences, state>>
    /\ UNCHANGED notProvider

\* what getModelProvider comes to: the cached provider, else the row's when it is one
\* of the two, else "openai"; both catch blocks end in "openai"
ModelProvider(stateThrows, cached, sqlThrows, stored) ==
    IF stateThrows
    THEN "openai"
    ELSE IF cached # ""
    THEN cached
    ELSE IF sqlThrows
    THEN "openai"
    ELSE IF stored \in Providers
    THEN stored
    ELSE "openai"

\* this.state?.preferences?.modelProvider
CachedProvider == IF state.defined THEN state.preferences.modelProvider ELSE ""

\* SELECT model_provider FROM user_preferences WHERE user_id = userId LIMIT 1
StoredProvider(rows, userId) ==
    IF \E r \in rows : r.user_id = userId
    THEN (CHOOSE r \in rows : r.user_id = userId).model_provider
    ELSE ""

\* ------------------------------------------------------------ the responses

\* Response.json(object, { status }): body is what the object is: "success" for
\* { success: true, ... }, "error" for { error: string }, "success-false" for
\* { success: false }, "object" for an object with neither field, "array" for an
\* array; new Response(text, { status }) has the body "text"
Json(status, body) == [status |-> status, body |-> body]

\* the paths of the agent's onRequest, and one that no handler matches
AgentPaths ==
    {"/internal/update-name", "/internal/update-model-provider",
     "/internal/send-check-in-message", "/internal/analyze-tone",
     "/internal/get-recommendations", "/internal/save-check-in", "/internal/send-message",
     "/get-messages", "/test-check-in", "/internal/unknown"}

\* the paths of the worker's own endpoints
WorkerPaths ==
    {"/check-open-ai-key", "/api/update-agent-name", "/api/update-model-provider",
     "/api/test-workflow", "/api/test-workflow-event", "/api/workflow-status"}

\* a path that the worker routes to no agent
Unrouted == "/favicon.ico"

Methods == {"GET", "POST"}

\* a request's body (or query): with what the handler asks for, without it, or no JSON
BodyKinds == {"valid", "invalid", "malformed"}

\* a request: throws tells whether the method the handler calls throws, env whether
\* the deployment has what the endpoint asks for (the key, the workflow binding)
Requests(paths) ==
    [path : paths, method : Methods, body : BodyKinds, throws : BOOLEAN, env : BOOLEAN]

NoHttp ==
    [surface |-> "none",
     request |-> [path |-> "", method |-> "", body |-> "", throws |-> FALSE, env |-> FALSE],
     response |-> Json(0, "")]

\* try { body = await request.json(); if (!field) return 400; await method(...);
\* return Response.json({ success: true }) } catch { return 500 }
Handled(req) ==
    IF req.body = "malformed" THEN Json(500, "error")
    ELSE IF req.body = "invalid" THEN Json(400, "error")
    ELSE IF req.throws THEN Json(500, "error")
    ELSE Json(200, "success")

\* return new Response("Not found", { status: 404 })
NotFound == Json(404, "text")

\* onRequest: the response to a request
OnRequestResponse(req) ==
    CASE req.path \in {"/internal/update-name", "/internal/update-model-provider",
                       "/internal/send-check-in-message", "/internal/save-check-in",
                       "/internal/send-message"} /\ req.method = "POST" ->
             Handled(req)
      [] req.path = "/internal/analyze-tone" /\ req.method = "POST" ->
             IF Handled(req).status = 200 THEN Json(200, "object") ELSE Handled(req)
      [] req.path = "/internal/get-recommendations" /\ req.method = "POST" ->
             IF req.body = "malformed" \/ req.throws
             THEN Json(500, "error")
             ELSE Json(200, "object")
      [] req.path = "/get-messages" /\ req.method = "GET" ->
             IF req.throws THEN Json(500, "error") ELSE Json(200, "array")
      [] req.path = "/test-check-in" /\ req.method = "POST" ->
             TestCheckInResponse([pc |-> IF req.throws THEN "threw" ELSE "done"])
      [] OTHER -> NotFound

\* the worker's fetch: the response to a request; routeAgentRequest gives the
\* response of the agent's onRequest for a path under /agents/mindguard/<name>, and
\* nothing for another path
FetchResponse(req) ==
    CASE req.path = "/check-open-ai-key" ->
             IF req.env THEN Json(200, "success") ELSE Json(200, "success-false")
      [] req.path = "/api/update-agent-name" /\ req.method = "POST" ->
             IF req.body = "valid"
             THEN OnRequestResponse([req EXCEPT !.path = "/internal/update-name"])
             ELSE Handled(req)
      [] req.path = "/api/update-model-provider" /\ req.method = "POST" ->
             IF req.body = "valid"
             THEN OnRequestResponse([req EXCEPT !.path = "/internal/update-model-provider"])
             ELSE Handled(req)
      [] req.path = "/api/test-workflow" /\ req.method = "POST" ->
             IF ~req.env \/ req.body = "malformed" \/ req.throws
             THEN Json(500, "error")
             ELSE Json(200, "success")
      [] req.path = "/api/test-workflow-event" /\ req.method = "POST" ->
             IF ~req.env THEN Json(500, "error") ELSE Handled(req)
      [] req.path = "/api/workflow-status" /\ req.method = "GET" ->
             IF ~req.env THEN Json(500, "error")
             ELSE IF req.body # "valid" THEN Json(400, "error")
             ELSE IF req.throws THEN Json(500, "error")
             ELSE Json(200, "success")
      [] req.path \in AgentPaths -> OnRequestResponse(req)
      [] OTHER -> NotFound

\* a request to the agent gets its response
OnRequest(req) ==
    /\ http' = [surface |-> "agent", request |-> req, response |-> OnRequestResponse(req)]
    /\ UNCHANGED notHttp

\* a request to the worker gets its response
Fetch(req) ==
    /\ http' = [surface |-> "worker", request |-> req, response |-> FetchResponse(req)]
    /\ UNCHANGED notHttp

\* ------------------------------------------------------------ onChatMessage

\* a user's message: its first part is text
User(text) == [role |-> "user", kind |-> "text", lines |-> <<>>, text |-> text]

IdleChat == [pc |-> "idle", trigger |-> "none", forward |-> "none", answer |-> "none"]

\* a client's chat message: it joins the conversation and onChatMessage is called
ChatRequest(text) ==
    /\ chat.pc = "idle"
    /\ messages' = Append(messages, User(text))
    /\ chat' = [IdleChat EXCEPT !.pc = "forward", !.trigger = "message"]
    /\ UNCHANGED <<wf, runs, cycle, cron>>
    /\ UNCHANGED ledgerVars
    /\ UNCHANGED notChat

\* onConnect: the conversation is saved again as it is, for the client that
\* connected, and onChatMessage is called
OnConnect ==
    /\ chat.pc = "idle"
    /\ Len(messages) > 0
    /\ chat' = [IdleChat EXCEPT !.pc = "forward", !.trigger = "sync"]
    /\ UNCHANGED <<messages, wf, runs, cycle, cron>>
    /\ UNCHANGED ledgerVars
    /\ UNCHANGED notChat

\* this.env.CHECKIN_WORKFLOW.sendEvent(...): the call is made on the binding, which
\* creates runs and looks them up (create, get(instanceId)); an event reaches a run
\* through the run that get(instanceId) gives. The call throws and the run is as it was
BindingSendEvent(run, text) == [threw |-> TRUE, run |-> run]

\* onChatMessage up to the end of the block that forwards a user's text to the
\* workflow: the error of sendEvent is caught
OnChatMessageForward ==
    /\ chat.pc = "forward"
    /\ LET lastMessage == messages[Len(messages)]
       IN  IF CHECKIN_WORKFLOW /\ Len(messages) > 0 /\ lastMessage.role = "user"
                /\ lastMessage.kind = "text"
           THEN LET sent == BindingSendEvent(wf, lastMessage.text)
                IN  /\ wf' = sent.run
                    /\ chat' = [chat EXCEPT !.pc = "respond",
                                            !.forward = IF sent.threw THEN "threw" ELSE "sent"]
           ELSE /\ chat' = [chat EXCEPT !.pc = "respond"]
                /\ UNCHANGED wf
    /\ UNCHANGED <<messages, runs, cycle, cron>>
    /\ UNCHANGED ledgerVars
    /\ UNCHANGED notChat

Complete(m) == m.kind # "incomplete-tool-call"

\* cleanupMessages(this.messages): the messages without those whose tool call is
\* incomplete
CleanupMessages(msgs) == SelectSeq(msgs, Complete)

\* a handler without the test of the last message's role
LastIsAssistantUntested(cleanedMessages) == FALSE

\* lastMessage && lastMessage.role === "assistant"
LastIsAssistant(cleanedMessages) ==
    cleanedMessages[Len(cleanedMessages)].role = "assistant"

\* the stream's execute: nothing when the last message is the assistant's, else the
\* model's response, or the apology when that throws
OnChatMessageRespond ==
    /\ chat.pc = "respond"
    /\ LET cleanedMessages == CleanupMessages(messages)
       IN  IF cleanedMessages = <<>>
           THEN /\ chat' = [chat EXCEPT !.pc = "idle", !.answer = "canned"]
                /\ UNCHANGED messages
           ELSE IF LastIsAssistant(cleanedMessages)
           THEN /\ chat' = [chat EXCEPT !.pc = "idle", !.answer = "none"]
                /\ UNCHANGED messages
           ELSE \E throws \in BOOLEAN :
                  IF throws
                  THEN /\ chat' = [chat EXCEPT !.pc = "idle", !.answer = "apology"]
                       /\ messages' = Append(messages, Assistant("apology"))
                  ELSE /\ chat' = [chat EXCEPT !.pc = "idle", !.answer = "response"]
                       /\ messages' = Append(messages, Assistant("response"))
    /\ UNCHANGED <<wf, runs, cycle, cron>>
    /\ UNCHANGED ledgerVars
    /\ UNCHANGED notChat

\* ---------------------------------------------------------- specifications

InitLedger ==
    /\ check_ins = {}
    /\ today = 1
    /\ now = 1
    /\ nextId = 1
    /\ call = [p \in AllCallers |-> IdleCall]
    /\ pre = [check_ins |-> {}, state |-> NoState]

InitScheduler ==
    /\ schedules = {}
    /\ nextJob = 1
    /\ time = 1
    /\ start = [q \in Starters |-> IdleStart]

InitCycle ==
    /\ messages = <<>>
    /\ wf = NoRun
    /\ runs = 0
    /\ cycle = [check_ins |-> {}, messages |-> 0, now |-> 1]
    /\ cron = IdleCron

InitNames ==
    /\ user_preferences = {}
    /\ upd = [p \in Callers |-> IdleUpdate]
    /\ get = [p \in Callers |-> IdleGet]
    /\ prov = IdleProvider

InitChat == chat = IdleChat

InitHttp == http = NoHttp

InitLedgerSpec ==
    /\ InitLedger
    /\ InitScheduler
    /\ InitCycle
    /\ InitNames
    /\ InitChat
    /\ InitHttp
    /\ state = NoState

\* a fresh state, or one a client has set, with any check-in time
InitSchedulerSpec ==
    /\ InitLedger
    /\ InitScheduler
    /\ InitCycle
    /\ InitNames
    /\ InitChat
    /\ InitHttp
    /\ state \in {NoState} \cup
           {[NoState EXCEPT !.defined = TRUE, !.userId = "default",
                            !.preferences.checkInTime = t] : t \in TimeInputs}

\* wake-ups of one agent instance, interleaved at their awaits, and the schedule tools
NextScheduler ==
    \/ \E q \in Starters : OnStartBegin(q)
    \/ \E q \in Starters : ScheduleDailyCheckIn(q)
    \/ \E q \in Starters : ScheduleDailyCheckInVerify(q)
    \/ \E q \in Starters : OnStartReturn(q)
    \/ ScheduleTask
    \/ CancelSchedule

SpecScheduler == InitSchedulerSpec /\ [][NextScheduler]_vars

NoCallInFlight == \A q \in AllCallers : call[q].pc = "idle"

\* the callers of one agent instance on one day, interleaved at their awaits
NextLedger ==
    \/ \E p \in Callers : nextId <= MaxOverlappingCalls /\ ToolSaveCheckIn(p)
    \/ \E p \in Callers : SaveCheckInWrite(p)
    \/ \E p \in Callers : SaveCheckInSetState(p)
    \/ \E p \in Callers : SaveCheckInReturn(p)

SpecLedger == InitLedgerSpec /\ [][NextLedger]_vars

\* one invocation at a time: a call starts when no other is in flight
NextLedgerSeq ==
    \/ \E p \in Callers : NoCallInFlight /\ nextId <= MaxCalls /\ ToolSaveCheckIn(p)
    \/ \E p \in Callers : NoCallInFlight /\ nextId <= MaxCalls /\ PostSaveCheckIn(p)
    \/ \E p \in Callers : SaveCheckInWrite(p)
    \/ \E p \in Callers : SaveCheckInSetState(p)
    \/ \E p \in Callers : SaveCheckInReturn(p)
    \/ today < MaxDays /\ NextDay

SpecLedgerSeq == InitLedgerSpec /\ [][NextLedgerSeq]_vars

\* the check-in the assistant saves in the behaviours that build a history
HistoryInput ==
    [emotionalTone |-> Str_negative, summary |-> "s1",
     recommendations |-> [isArray |-> TRUE, items |-> <<"r1">>]]

\* a history that grows over the days: the tool's saves, one at a time
NextHistory ==
    \/ \E p \in Callers :
          /\ NoCallInFlight
          /\ nextId <= MaxHistoryCalls
          /\ SaveCheckInSelect(p, "tool", HistoryInput.emotionalTone, HistoryInput.summary,
                 HistoryInput.recommendations)
    \/ \E p \in Callers : SaveCheckInWrite(p)
    \/ \E p \in Callers : SaveCheckInSetState(p)
    \/ \E p \in Callers : SaveCheckInReturn(p)
    \/ today < MaxHistoryDays /\ NextDay

SpecHistory == InitLedgerSpec /\ [][NextHistory]_vars

\* check-in cycles of one agent instance: workflow runs, one after the other, with
\* the saveCheckIn their save step calls, and firings of executeDailyCheckIn
NextCycle ==
    \/ WfCreate
    \/ WfSendCheckInMessage
    \/ \E text \in ReplyInputs : SendEvent(text)
    \/ WaitTimeout
    \/ WfAnalyze
    \/ WfRecommend
    \/ WfSaveRequest
    \/ WfSaveFetchThrows
    \/ SaveCheckInWrite(WfCaller)
    \/ SaveCheckInSetState(WfCaller)
    \/ WfSaveResponse
    \/ WfSendSummary
    \/ WfHandleTimeout
    \/ cron.firings < MaxFirings /\ ExecuteDailyCheckIn
    \/ ExecuteDailyCheckInFallback

SpecCycle == InitLedgerSpec /\ [][NextCycle]_vars

\* one agent instance over the days: its wake-ups, the clock, the daily job's alarm
NextCron ==
    \/ \E q \in Starters : OnStartBegin(q)
    \/ \E q \in Starters : ScheduleDailyCheckIn(q)
    \/ \E q \in Starters : ScheduleDailyCheckInVerify(q)
    \/ \E q \in Starters : OnStartReturn(q)
    \/ ClockTick
    \/ AlarmFires
    \/ ExecuteDailyCheckInFallback

SpecCron == InitSchedulerSpec /\ [][NextCron]_vars

\* the steps of a workflow run
NextRun ==
    \/ WfCreate
    \/ WfSendCheckInMessage
    \/ \E text \in ReplyInputs : SendEvent(text)
    \/ WaitTimeout
    \/ WfAnalyze
    \/ WfRecommend
    \/ WfSaveRequest
    \/ WfSaveFetchThrows
    \/ SaveCheckInWrite(WfCaller)
    \/ SaveCheckInSetState(WfCaller)
    \/ WfSaveResponse
    \/ WfSendSummary
    \/ WfHandleTimeout

\* what a run does by itself: every await of run() but the wait for the event ends
\* without input from outside (a fetch answers or throws, a statement returns or
\* throws), and the wait ends at its timeout
WfProgress ==
    \/ WfSendCheckInMessage
    \/ WaitTimeout
    \/ WfAnalyze
    \/ WfRecommend
    \/ WfSaveRequest
    \/ WfSaveFetchThrows
    \/ SaveCheckInWrite(WfCaller)
    \/ SaveCheckInSetState(WfCaller)
    \/ WfSaveResponse
    \/ WfSendSummary
    \/ WfHandleTimeout

\* runs that are not stopped: the runtime goes on with a run that can go on
SpecRunFair == InitLedgerSpec /\ [][NextRun]_vars /\ WF_vars(WfProgress)

\* workflow runs whose host can stop and restart
NextCrash ==
    \/ NextRun
    \/ WfRestartBetweenSteps
    \/ \E step \in {"send-check-in-message", "send-summary", "handle-timeout"} :
          WfCrashInMessageStep(step)
    \/ WfCrashInSaveStep

SpecCrash == InitLedgerSpec /\ [][NextCrash]_vars

NoNameCallInFlight == \A q \in Callers : upd[q].pc = "idle" /\ get[q].pc = "idle"

\* the agent's name, one invocation at a time: updates from the agent's code, from
\* POST /internal/update-name and from the worker's POST /api/update-agent-name, and
\* reads
NextNames ==
    \/ \E p \in Callers : NoNameCallInFlight /\ CallUpdateAgentName(p)
    \/ \E p \in Callers, body \in NameBodies :
          NoNameCallInFlight /\ HttpUpdateName(p, ThisInstance, body)
    \/ \E p \in Callers : NoNameCallInFlight /\ ApiUpdateAgentName(p)
    \/ \E p \in Callers : UpdateAgentNameSetState(p)
    \/ \E p \in Callers : UpdateAgentNameReturn(p)
    \/ \E p \in Callers : NoNameCallInFlight /\ GetAgentNameBegin(p)
    \/ \E p \in Callers : GetAgentNameReturn(p)
    \/ \E p \in Callers : GetAgentNameEnd(p)

SpecNames == InitLedgerSpec /\ [][NextNames]_vars

\* the names of the behaviours in which invocations overlap
OverlapNames == {<<"S", "a", "g", "e">>, <<" ", "Z", "o", "e", " ">>}

\* updates and reads of one agent instance, interleaved at their awaits
NextNamesOverlap ==
    \/ \E p \in Callers, newName \in OverlapNames :
          get[p].pc = "idle" /\ UpdateAgentNameUpsert(p, "call", ThisInstance, newName)
    \/ \E p \in Callers : UpdateAgentNameSetState(p)
    \/ \E p \in Callers : UpdateAgentNameReturn(p)
    \/ \E p \in Callers : upd[p].pc = "idle" /\ GetAgentNameBegin(p)
    \/ \E p \in Callers : GetAgentNameReturn(p)
    \/ \E p \in Callers : GetAgentNameEnd(p)

SpecNamesOverlap == InitLedgerSpec /\ [][NextNamesOverlap]_vars

\* the caller whose invocations the behaviours about the preferences follow
PrefCaller == CHOOSE p \in Callers : TRUE

\* no wake-up and no firing of executeDailyCheckIn is under way
NoTriggerInFlight ==
    /\ \A q \in Starters : start[q].pc = "idle"
    /\ cron.pc \in {"idle", "done"}

\* no invocation that touches the preferences or the ledger is under way
NoPrefCallInFlight == NoNameCallInFlight /\ NoCallInFlight /\ prov.pc = "idle"

\* the wake-up the behaviours about the preferences follow
PrefStarter == CHOOSE q \in Starters : TRUE

\* the preferences of one agent instance among its other operations: updates and
\* reads of the name, one at a time, interleaved at their awaits with an update of
\* the model provider or a save of the tool, and between them a wake-up with its
\* scheduling or the firing of executeDailyCheckIn
NextPrefs ==
    \/ \E newName \in OverlapNames :
          /\ NoNameCallInFlight
          /\ NoTriggerInFlight
          /\ UpdateAgentNameUpsert(PrefCaller, "call", ThisInstance, newName)
    \/ UpdateAgentNameSetState(PrefCaller)
    \/ UpdateAgentNameReturn(PrefCaller)
    \/ NoNameCallInFlight /\ NoTriggerInFlight /\ GetAgentNameBegin(PrefCaller)
    \/ GetAgentNameReturn(PrefCaller)
    \/ GetAgentNameEnd(PrefCaller)
    \/ \E provider \in Providers :
          NoCallInFlight /\ NoTriggerInFlight /\ UpdateModelProviderUpsert(provider)
    \/ UpdateModelProviderSetState
    \/ UpdateModelProviderReturn
    \/ /\ NoCallInFlight
       /\ prov.pc = "idle"
       /\ NoTriggerInFlight
       /\ nextId <= MaxPrefSaves
       /\ SaveCheckInSelect(PrefCaller, "tool", HistoryInput.emotionalTone,
              HistoryInput.summary, HistoryInput.recommendations)
    \/ SaveCheckInWrite(PrefCaller)
    \/ SaveCheckInSetState(PrefCaller)
    \/ SaveCheckInReturn(PrefCaller)
    \/ NoPrefCallInFlight /\ NoTriggerInFlight /\ OnStartBegin(PrefStarter)
    \/ ScheduleDailyCheckIn(PrefStarter)
    \/ ScheduleDailyCheckInVerify(PrefStarter)
    \/ OnStartReturn(PrefStarter)
    \/ NoPrefCallInFlight /\ cron.pc = "idle" /\ NoTriggerInFlight /\ ExecuteDailyCheckIn
    \/ ExecuteDailyCheckInFallback

SpecPrefs == InitLedgerSpec /\ [][NextPrefs]_vars

\* the responses of the HTTP surface: requests to the agent and to the worker
NextHttp ==
    \/ \E req \in Requests(AgentPaths) : OnRequest(req)
    \/ \E req \in Requests(WorkerPaths \cup AgentPaths \cup {Unrouted}) : Fetch(req)

SpecHttp == InitLedgerSpec /\ [][NextHttp]_vars

\* what the user writes
ChatTexts == {<<"s", "o", " ", "s", "a", "d">>}

\* the conversation of one agent instance: the user's messages, clients that
\* connect, the prompts of executeDailyCheckIn, and a workflow run with its messages
NextChat ==
    \/ \E text \in ChatTexts : Len(messages) < MaxMessages /\ ChatRequest(text)
    \/ OnConnect
    \/ OnChatMessageForward
    \/ OnChatMessageRespond
    \/ cron.firings < MaxFirings /\ ExecuteDailyCheckIn
    \/ ExecuteDailyCheckInFallback
    \/ runs < MaxChatRuns /\ WfCreate
    \/ WfSendCheckInMessage
    \/ \E text \in ChatTexts : SendEvent(text)
    \/ WaitTimeout
    \/ WfAnalyze
    \/ WfRecommend
    \/ WfSaveRequest
    \/ WfSaveFetchThrows
    \/ SaveCheckInWrite(WfCaller)
    \/ SaveCheckInSetState(WfCaller)
    \/ WfSaveResponse
    \/ WfSendSummary
    \/ WfHandleTimeout

SpecChat == InitLedgerSpec /\ [][NextChat]_vars

\* ------------------------------------------------------------ the ledger

RowsFor(rows, userId, date) == {r \in rows : r.user_id = userId /\ r.date = date}

Succeeded(p) == call[p].pc = "done" /\ call[p].result = "ok"
Failed(p) == call[p].pc = "done" /\ call[p].result = "threw"

\* C1: a saveCheckIn that succeeds on a day for which the user already has a row
\* (written by an earlier call) leaves exactly one row for that (user, date); the row
\* keeps the id the earlier call gave it, not the id generated by this call, and
\* carries this call's tone (lower-cased), summary and recommendations.
C1_SecondSaveUpdatesInPlace ==
    \A p \in Callers :
        (Succeeded(p) /\ RowsFor(pre.check_ins, call[p].userId, call[p].date) # {}) =>
            LET before == RowsFor(pre.check_ins, call[p].userId, call[p].date)
                after == RowsFor(check_ins, call[p].userId, call[p].date)
            IN  /\ Cardinality(after) = 1
                /\ \A r \in after :
                      /\ r.id \in {x.id : x \in before}
                      /\ r.id # call[p].checkInId
                      /\ r.emotional_tone = ToLowerCase(ValidatedTone(call[p].toneArg))
                      /\ r.summary = call[p].summary
                      /\ r.recommendations = call[p].recommendations.items

\* a second call of a day has succeeded, with a summary other than the stored one
C1_Witness ==
    \E p \in Callers :
        /\ Succeeded(p)
        /\ \E x \in RowsFor(pre.check_ins, call[p].userId, call[p].date) :
              x.summary # call[p].summary

\* C2: the check_ins table never holds two rows for one (user_id, date), also
\* while saveCheckIn calls of the same user and day overlap.
C2_AtMostOneRowPerUserDate ==
    \A r1, r2 \in check_ins :
        (r1.user_id = r2.user_id /\ r1.date = r2.date) => r1 = r2

\* C10: when saveCheckIn has thrown, the table and the cached state are what they
\* were when the call started.
C10_FailedSaveChangesNothing ==
    \A p \in Callers :
        Failed(p) => (check_ins = pre.check_ins /\ state = pre.state)

\* ---------------------------------------------------------- the scheduler

C4_NeverTwoDailyJobs == Cardinality(DailyJobs(schedules)) <= 1

\* two calls overlap: both started before the daily job existed, one has created it
C4_Witness ==
    /\ Cardinality(DailyJobs(schedules)) = 1
    /\ \E q1, q2 \in Starters :
          /\ q1 # q2
          /\ start[q1].pc = "scheduled" /\ ~start[q1].listedDaily
          /\ start[q2].pc = "done" /\ ~start[q2].listedDaily

\* ------------------------------------------------------- the check-in cycle

\* the messages appended since the run was created
CycleMessages == SubSeq(messages, cycle.messages + 1, Len(messages))

CountKind(msgs, kind) == Cardinality({i \in DOMAIN msgs : msgs[i].kind = kind})

LogSteps == [i \in DOMAIN wf.log |-> wf.log[i].step]

InLog(step, outcome) == \E i \in DOMAIN wf.log : wf.log[i] = Logged(step, outcome)

StepFailed(step) ==
    \E i \in DOMAIN wf.log : wf.log[i].step = step /\ wf.log[i].outcome # "ok"

TimedOut == InLog("waitForEvent", "timeout")

IsPrefix(a, b) == Len(a) <= Len(b) /\ a = SubSeq(b, 1, Len(a))

\* C5: a run whose wait ended with the timeout takes the timeout branch: it makes
\* exactly one send of the reminder (the reminder is in the conversation once when
\* that send succeeded), calls save-check-in never (the ledger is as it was when the
\* run was created), sends no summary, runs none of the reply steps, and is over
\* after the reminder step.
C5_TimeoutPath ==
    TimedOut =>
        /\ wf.pc \in {"handle-timeout", "completed", "failed"}
        /\ LogSteps \in {<<"send-check-in-message", "waitForEvent">>,
                          <<"send-check-in-message", "waitForEvent", "handle-timeout">>}
        /\ (wf.pc = "handle-timeout") = (Len(wf.log) = 2)
        /\ CountKind(CycleMessages, "reminder") =
               (IF InLog("handle-timeout", "ok") THEN 1 ELSE 0)
        /\ CountKind(CycleMessages, "summary") = 0
        /\ call[WfCaller].pc = "idle"
        /\ check_ins = cycle.check_ins

\* the timeout branch has been taken and the reminder is in the conversation
C5_Witness ==
    /\ TimedOut
    /\ wf.pc = "completed"
    /\ CountKind(CycleMessages, "reminder") = 1

HappyOrder ==
    <<"send-check-in-message", "waitForEvent", "analyze-emotional-tone",
      "generate-recommendations", "save-check-in", "send-summary">>

SavedByCycle ==
    \E r \in check_ins :
        /\ r.date = today
        /\ r.emotional_tone = wf.analysis.tone
        /\ r.summary = WfSummary(wf.analysis.tone)
        /\ r.recommendations = wf.recommendations

\* C6: in a run whose reply arrived, the steps happen once each and in the order
\* prompt, reply, tone analysis, recommendations, save, summary; a completed run has
\* done all six with success; the summary is in the conversation only after the
\* check-in was saved, and nothing is analysed or written before the prompt was sent.
C6_StepsOnceInOrder ==
    /\ ~TimedOut => IsPrefix(LogSteps, HappyOrder)
    /\ (wf.pc = "completed" /\ ~TimedOut) =>
           /\ LogSteps = HappyOrder
           /\ \A i \in DOMAIN wf.log : wf.log[i].outcome \in {"ok", "event"}
           /\ CountKind(CycleMessages, "summary") = 1
           /\ SavedByCycle
    /\ CountKind(CycleMessages, "summary") > 0 =>
           (InLog("save-check-in", "ok") /\ SavedByCycle)
    /\ (wf.analysis.tone # <<>> \/ call[WfCaller].pc # "idle"
            \/ (wf.pc # "none" /\ check_ins # cycle.check_ins)) =>
           InLog("send-check-in-message", "ok")

\* a run has completed on the reply path
C6_Witness ==
    /\ wf.pc = "completed"
    /\ InLog("waitForEvent", "event")
    /\ CountKind(CycleMessages, "summary") = 1

\* C7: a run whose tone-analysis step failed is not aborted: it goes on with tone
\* neutral and intensity 5.
C7_AnalysisFailureDegrades ==
    StepFailed("analyze-emotional-tone") =>
        /\ wf.pc # "failed"
        /\ wf.analysis = [tone |-> Str_neutral, intensity |-> 5]

C9_SaveFailureAborts ==
    StepFailed("save-check-in") =>
        /\ wf.pc = "failed"
        /\ LogSteps = SubSeq(HappyOrder, 1, 5)
        /\ CountKind(CycleMessages, "summary") = 0

\* the save step has failed because saveCheckIn threw and the handler answered 500
C9_Witness ==
    /\ InLog("save-check-in", "notOk")
    /\ wf.pc = "failed"

\* --------------------------------------------------- stops of the host

SideEffectKinds == {"check-in-prompt", "summary", "reminder"}

\* C11: in one cycle every side-effecting step takes effect at most once, also when
\* the host stops and restarts: the prompt, the summary and the reminder are in the
\* conversation at most once each, and the ledger is written at most once.
C11_EffectsAtMostOnce ==
    /\ \A kind \in SideEffectKinds : CountKind(CycleMessages, kind) <= 1
    /\ now - cycle.now <= 1

\* ------------------------------------------------------------ termination

Terminal == wf.pc \in {"completed", "failed"}

\* C12: a run that has sent its prompt reaches a terminal outcome (completed, timed
\* out and completed, or failed), and a run that waits for the reply stops waiting:
\* the reply or the timeout ends the wait, and no step after it needs the user.
C12_PromptedCycleEnds ==
    /\ InLog("send-check-in-message", "ok") ~> Terminal
    /\ (wf.pc = "waitForEvent") ~> (wf.pc # "waitForEvent")

\* a run that sent its prompt and was not answered has ended
C12_Witness ==
    /\ Terminal
    /\ InLog("send-check-in-message", "ok")
    /\ TimedOut
    /\ Len(wf.log) = 3

\* ------------------------------------------------------ the daily trigger

\* "HH:MM" split at the colon
HourOf(t) == SubSeq(t, 1, (CHOOSE i \in DOMAIN t : t[i] = ":") - 1)
MinuteOf(t) == SubSeq(t, (CHOOSE i \in DOMAIN t : t[i] = ":") + 1, Len(t))

\* "MM HH * * *"
DailyCron(t) == <<MinuteOf(t), HourOf(t), Star, Star, Star>>

\* C13: the daily job's cron expression is "MM HH * * *" for the configured check-in
\* time "HH:MM"; every invocation of executeDailyCheckIn by the job happens at that
\* minute of the day, and no calendar day has two of them.
C13_OncePerDayAtCheckInTime ==
    /\ \A j \in DailyJobs(schedules) : j.when = DailyCron(CheckInTime)
    /\ \A i \in DOMAIN cron.firedAt :
          Instants[cron.firedAt[i].time] =
              [hour |-> ParseInt(HourOf(CheckInTime)),
               minute |-> ParseInt(MinuteOf(CheckInTime))]
    /\ \A i, k \in DOMAIN cron.firedAt :
          i # k => cron.firedAt[i].day # cron.firedAt[k].day

\* ------------------------------------------------- an invalid check-in time

\* a time of day written "H:MM" or "HH:MM": one colon, one or two digits of an hour
\* up to 23 before it, two digits of a minute up to 59 after it
IsTimeOfDay(t) ==
    /\ Cardinality({i \in DOMAIN t : t[i] = ":"}) = 1
    /\ Len(HourOf(t)) \in {1, 2}
    /\ Len(MinuteOf(t)) = 2
    /\ \A i \in DOMAIN t : t[i] \in Digits \cup {":"}
    /\ ParseInt(HourOf(t)) <= 23
    /\ ParseInt(MinuteOf(t)) <= 59

\* C14: a scheduleDailyCheckIn call made while the configured check-in time is not a
\* time of day returns normally and leaves the scheduled jobs exactly as they were.
C14_InvalidTimeIsNoOp ==
    [][\A q \in Starters :
          (start[q].pc = "init" /\ start'[q].pc # "init" /\ ~IsTimeOfDay(CheckInTime)) =>
              /\ start'[q].pc = "done"
              /\ schedules' = schedules
              /\ nextJob' = nextJob]_vars

\* a call has returned with an invalid time configured, other jobs being scheduled
C14_Witness ==
    /\ ~IsTimeOfDay(CheckInTime)
    /\ schedules # {}
    /\ DailyJobs(schedules) = {}
    /\ \E q \in Starters : start[q].pc = "done"

\* ------------------------------------------------------ the stored tone

ToneLabels == {Str_positive, Str_neutral, Str_negative}

\* the same letter in either case, or the same character
SameCharIgnoringCase(a, b) ==
    \/ a = b
    \/ \E k \in DOMAIN UpperChars : {a, b} = {UpperChars[k], LowerChars[k]}

EqualIgnoringCase(s, t) ==
    /\ Len(s) = Len(t)
    /\ \A i \in DOMAIN s : SameCharIgnoringCase(s[i], t[i])

\* the label a given tone is to be stored as
StoredTone(tone) ==
    IF \E l \in ToneLabels : EqualIgnoringCase(tone, l)
    THEN CHOOSE l \in ToneLabels : EqualIgnoringCase(tone, l)
    ELSE Str_neutral

\* C15: every tone in the table and in the cached check-ins is one of the three
\* lower-case labels, and a saveCheckIn that succeeded has stored, in the row and in
\* the cached entry of its date, the label its tone equals ignoring case, or neutral
\* when it equals none.
C15_ToneNormalized ==
    /\ \A r \in check_ins : r.emotional_tone \in ToneLabels
    /\ \A i \in DOMAIN state.dailyCheckIns :
          state.dailyCheckIns[i].emotionalTone \in ToneLabels
    /\ \A p \in Callers :
          Succeeded(p) =>
              /\ \A r \in RowsFor(check_ins, call[p].userId, call[p].date) :
                    r.emotional_tone = StoredTone(call[p].toneArg)
              /\ \A i \in DOMAIN state.dailyCheckIns :
                    state.dailyCheckIns[i].date = call[p].date =>
                        state.dailyCheckIns[i].emotionalTone = StoredTone(call[p].toneArg)

\* "bogus" has been saved on a day, "POSITIVE" on another: neutral and positive are stored
C15_Witness ==
    \E p \in Callers :
        /\ Succeeded(p)
        /\ call[p].toneArg = Str_bogus
        /\ \E r \in RowsFor(check_ins, call[p].userId, call[p].date) :
              r.emotional_tone = Str_neutral
        /\ \E r \in check_ins : r.summary = "s1" /\ r.emotional_tone = Str_positive

\* ------------------------------------------------------- a missing tone

MissingTone(p) ==
    /\ call[p].pc # "idle"
    /\ call[p].toneArg = Str_empty
    /\ call[p].summary # ""
    /\ call[p].recommendations.isArray

InvalidSave(p) ==
    /\ call[p].pc # "idle"
    /\ call[p].result # "rejected"
    /\ call[p].summary = "" \/ ~call[p].recommendations.isArray

\* C17: a saveCheckIn invoked with an empty summary or with recommendations that are
\* not a list has thrown, and it has done so before generating an id, before the
\* SELECT and before any write: the table and the cached state are what they were
\* when it was invoked.
C17_InvalidSaveTouchesNothing ==
    \A p \in Callers :
        InvalidSave(p) =>
            /\ call[p].pc = "done"
            /\ call[p].result = "threw"
            /\ call[p].checkInId = NoId
            /\ call[p].existing = NoId
            /\ check_ins = pre.check_ins
            /\ state = pre.state

\* recommendations that are not a list have been refused, the table holding a row
C17_Witness ==
    \E p \in Callers :
        /\ InvalidSave(p)
        /\ ~call[p].recommendations.isArray
        /\ call[p].summary # ""
        /\ call[p].result = "threw"
        /\ check_ins # {}

\* --------------------------------------------- the professional-support rule

\* "Consider reaching out to a mental health professional or crisis support line"
ProfessionalSupport == "reach out to a mental health professional or crisis support line"

\* the list the rule asks for
WithProfessionalSupport(tone, intensity) ==
    IF tone = Str_negative /\ intensity >= 7
    THEN Append(ToneTable(tone), ProfessionalSupport)
    ELSE ToneTable(tone)

\* C18: the recommendations a run got from POST /internal/get-recommendations are the
\* fixed list of the tone, followed by the professional-support recommendation as the
\* last element exactly when the tone is negative and the intensity is 7 or more.
C18_ProfessionalSupportWhenIntense ==
    InLog("generate-recommendations", "ok") =>
        wf.recommendations =
            WithProfessionalSupport(wf.analysis.tone, IntensityOrDefault(wf.analysis))

\* ------------------------------------------------------------ the history

Limits == 1 .. MaxLimit

DatesOf(rows, userId) == {r.date : r \in {x \in rows : x.user_id = userId}}

\* the records of the most recent dates, the most recent first
MostRecentFirst(res, rows, userId, limit) ==
    LET dates == DatesOf(rows, userId)
    IN  /\ Len(res) = (IF limit < Cardinality(dates) THEN limit ELSE Cardinality(dates))
        /\ \A i \in DOMAIN res : res[i] \in rows /\ res[i].user_id = userId
        /\ \A i, j \in DOMAIN res : i < j => res[i].date > res[j].date
        /\ \A d \in dates :
              (\A i \in DOMAIN res : res[i].date # d) => \A i \in DOMAIN res : res[i].date > d

NumberPrefix == <<"1. ", "2. ", "3. ", "4. ", "5. ">>

SummariesOfCycle == {i \in DOMAIN CycleMessages : CycleMessages[i].kind = "summary"}

\* C20: the summary of a run lists the run's recommendations, one line each, in
\* their order: line i is "i. " followed by the i-th recommendation, and there are
\* as many lines as recommendations.
C20_SummaryNumbersRecommendations ==
    \A m \in SummariesOfCycle :
        LET lines == CycleMessages[m].lines
        IN  /\ Len(lines) = Len(wf.recommendations)
            /\ \A i \in DOMAIN lines : lines[i] = NumberPrefix[i] \o wf.recommendations[i]

\* a completed run's summary lists the three recommendations of a negative tone
C20_Witness ==
    /\ wf.pc = "completed"
    /\ wf.analysis.tone = Str_negative
    /\ \E m \in SummariesOfCycle :
          CycleMessages[m].lines =
              <<"1. 4-7-8 breathing", "2. write down your feelings",
                "3. talk to a trusted friend or professional">>

\* ------------------------------------------------- the validation of a name

Str_Sage == <<"S", "a", "g", "e">>

\* the invocation was refused by the validation: it threw before it had a user id
Refused(p) == upd[p].pc = "done" /\ upd[p].result = "threw" /\ upd[p].userId = ""

\* the invocation of p starts with this step
UpdateStarts(p) == upd[p].pc = "idle" /\ upd'[p].pc # "idle" /\ upd'[p].result # "rejected"

\* C21 as stated: updateAgentName refuses a name exactly when its trimmed form is
\* empty or longer than 50 characters; every name whose trimmed form is non-empty and
\* at most 50 characters is accepted.
C21_TrimmedFormDecides ==
    \A p \in Callers :
        (upd[p].pc = "done" /\ upd[p].result # "rejected") =>
            (Refused(p) <=>
                (Trim(upd[p].newName) = <<>> \/ Len(Trim(upd[p].newName)) > MaxNameLength))

\* C21 as amended: updateAgentName refuses a name whose trimmed form is empty or
\* which, as given, is longer than 50 characters, and then changes neither the
\* user_preferences rows nor the state; any other name passes the validation, its
\* trimmed form is what the upsert stores and what a successful call leaves in the
\* row and in the cached preferences.
C21_GivenLengthDecides ==
    [][\A p \in Callers :
          /\ UpdateStarts(p) =>
                LET newName == upd'[p].newName
                IN  IF Trim(newName) = <<>> \/ Len(newName) > MaxNameLength
                    THEN /\ upd'[p].pc = "done" /\ upd'[p].result = "threw"
                         /\ upd'[p].userId = ""
                         /\ user_preferences' = user_preferences
                         /\ state' = state
                    ELSE /\ upd'[p].userId # ""
                         /\ upd'[p].pc = "upserted" =>
                                StoredName(user_preferences', upd'[p].userId) = Trim(newName)
          /\ (upd[p].pc = "upserted" /\ upd'[p].result = "ok") =>
                /\ state'.defined
                /\ state'.preferences.agentName = Trim(upd[p].newName)
                /\ StoredName(user_preferences', upd[p].userId) = Trim(upd[p].newName)
                /\ Len(state'.preferences.agentName) \in 1 .. MaxNameLength]_vars

\* a padded name was accepted and is stored trimmed, in the row and in the state
C21_Witness ==
    \E p \in Callers :
        /\ upd[p].pc = "done" /\ upd[p].result = "ok"
        /\ upd[p].newName = <<" ", "S", "a", "g", "e", " ">>
        /\ CachedName = Str_Sage
        /\ StoredName(user_preferences, StateUserId) = Str_Sage

\* ------------------------------------------------ a name half way updated

\* an update has written the row and not yet the state, which holds an older name
Torn ==
    \E p \in Callers :
        /\ upd[p].pc = "upserted"
        /\ StoredName(user_preferences, upd[p].userId) = upd[p].trimmedName
        /\ CachedName # <<>>
        /\ CachedName # upd[p].trimmedName

\* C22: no getAgentName runs between the start and the end of an update while the
\* row holds the new name and the cached state still holds the old one.
C22_NoReaderSeesHalfAnUpdate ==
    [][\A q \in Callers : (get[q].pc = "idle" /\ get'[q].pc # "idle") => ~Torn]_vars

\* ------------------------------------------------------------ getAgentName

\* the name the claim gives for a read of the present state and rows
ExpectedName(p) ==
    IF get[p].stateThrew
    THEN Str_MindGuard
    ELSE IF CachedName # <<>>
    THEN CachedName
    ELSE IF get[p].sqlThrew
    THEN Str_MindGuard
    ELSE IF StoredName(user_preferences, StateUserId) # <<>>
    THEN StoredName(user_preferences, StateUserId)
    ELSE Str_MindGuard

\* C23: getAgentName never fails: it gives the cached name when the state has one,
\* else the agent_name of the row when there is one, else "MindGuard"; an error of the
\* state or of the statement gives "MindGuard".
C23_GetAgentNameNeverFails ==
    \A p \in Callers :
        get[p].pc \in {"selected", "done"} =>
            /\ ~get[p].failed
            /\ get[p].name = ExpectedName(p)

\* a read found no cached name and gave the name of the row
C23_Witness ==
    \E p \in Callers :
        /\ get[p].pc = "done"
        /\ ~get[p].stateThrew /\ ~get[p].sqlThrew
        /\ CachedName = <<>>
        /\ get[p].name = Str_Sage

\* ------------------------------------------- POST /internal/update-name

\* C24: POST /internal/update-name answers 400 for every invalid name (empty,
\* blank, longer than 50 characters), and answers 200 only when the name was stored.
C24_InvalidNameAnswers400 ==
    \A p \in Callers :
        (upd[p].pc = "done" /\ upd[p].via = "http") =>
            /\ (\/ upd[p].newName = <<>>
                \/ Trim(upd[p].newName) = <<>>
                \/ Len(upd[p].newName) > MaxNameLength) => HttpNameStatus(p) = 400
            /\ HttpNameStatus(p) = 200 =>
                   StoredName(user_preferences, upd[p].userId) = upd[p].trimmedName

\* ------------------------------------------- the status of a refused check-in

\* C25: POST /internal/save-check-in answers 400 whenever the caller's data fails
\* the validation (no summary, recommendations that are no array) and then writes
\* nothing; 500 is for internal failures only.
C25_InvalidCheckInAnswers400 ==
    \A p \in Callers :
        (call[p].pc = "done" /\ call[p].via = "http"
            /\ (call[p].summary = "" \/ ~call[p].recommendations.isArray)) =>
            /\ HttpStatus(p) = 400
            /\ check_ins = pre.check_ins

\* ------------------------------------------------- one instance per user

\* C26 (the update of a name): the rows and the state of an agent instance change
\* only on a request of a client of that instance.
C26_OnlyTheCallersInstanceChanges ==
    \A p \in Callers :
        (upd[p].pc = "upserted" \/ (upd[p].pc = "done" /\ upd[p].result = "ok")) =>
            upd[p].client = ThisInstance

\* --------------------------------------- a conversation the assistant ended

LastMessage == messages[Len(messages)]

\* C27: when the last message of the conversation is the assistant's, onChatMessage
\* generates no response and appends no message.
C27_NoResponseAfterAssistant ==
    [][(chat.pc = "respond" /\ chat'.pc = "idle" /\ Len(messages) > 0
            /\ LastMessage.role = "assistant") =>
          (messages' = messages /\ chat'.answer = "none")]_vars

\* a client connected after the scheduled prompt: onChatMessage ran and the prompt
\* is still the last message
C27_Witness ==
    /\ chat.pc = "idle" /\ chat.trigger = "sync" /\ chat.answer = "none"
    /\ Len(messages) > 0
    /\ LastMessage.kind = "check-in-prompt"

\* ------------------------------------------------------- the cron-only mode

\* C28 as stated: every firing of executeDailyCheckIn in cron-only mode ends with
\* exactly one prompt appended.
C28_ExactlyOnePromptPerFiring == cron.pc = "done" => cron.delivered = 1

\* C28 as amended: in cron-only mode a firing of executeDailyCheckIn creates no
\* workflow run, registers no wait and writes no ledger row nor state; each of its
\* sends appends one assistant prompt or, failing, nothing; it ends with one prompt
\* appended, or with none when the prompt and the fallback prompt both failed.
C28_CronOnlyFiring ==
    [][cron' # cron =>
          /\ wf' = wf /\ runs' = runs /\ cycle' = cycle
          /\ check_ins' = check_ins /\ state' = state
          /\ LET before == IF cron.pc = "fallback" THEN cron.delivered ELSE 0
             IN  /\ Len(messages') = Len(messages) + (cron'.delivered - before)
                 /\ messages' # messages =>
                        /\ messages' = Append(messages, messages'[Len(messages')])
                        /\ messages'[Len(messages')].role = "assistant"
                        /\ messages'[Len(messages')].kind \in
                               {"check-in-prompt", "fallback-prompt"}
          /\ cron'.pc = "done" =>
                \/ cron'.delivered = 1
                \/ cron'.delivered = 0 /\ cron'.attempts = 2]_vars

\* a firing ended after its first send: the prompt is the last message and no run
\* was created
C28_Witness ==
    /\ cron.pc = "done" /\ cron.attempts = 1 /\ cron.delivered = 1
    /\ runs = 0 /\ wf.pc = "none"
    /\ Len(messages) > 0
    /\ messages[Len(messages)] = Assistant("check-in-prompt")

\* ------------------------------------------------- the cached view of the ledger

\* the row that was written last
LatestRow(rows) == CHOOSE r \in rows : \A x \in rows : x.created_at <= r.created_at

C30_ReplyResumesTheCycle ==
    [][(chat.pc = "forward" /\ chat'.pc = "respond" /\ wf.pc = "waitForEvent"
            /\ Len(messages) > 0 /\ LastMessage.role = "user") =>
          (wf'.pc = "analyze-emotional-tone" /\ wf'.userResponseText = LastMessage.text)]_vars

\* ------------------------------------------------- the two branches of a cycle

ReplySteps ==
    {"analyze-emotional-tone", "generate-recommendations", "save-check-in", "send-summary"}

GotReply == InLog("waitForEvent", "event")

\* the save-check-in step has been entered: its request is with the handler, or the
\* step is in the log, or the ledger is not what it was when the run was created
SaveCalled ==
    \/ call[WfCaller].pc # "idle"
    \/ \E i \in DOMAIN wf.log : wf.log[i].step = "save-check-in"
    \/ wf.pc # "none" /\ check_ins # cycle.check_ins

\* C36: a run takes one of its two branches and never both: the steps of the reply
\* branch and the timeout step are never in one run, the run is in a reply step only
\* after the event and in the timeout step only after the timeout, the conversation
\* never gets a summary and a reminder from one run, and save-check-in is called only
\* in a run whose reply arrived.
C36_OneBranchPerCycle ==
    /\ ~(GotReply /\ TimedOut)
    /\ ~(\E i, j \in DOMAIN wf.log :
            wf.log[i].step \in ReplySteps /\ wf.log[j].step = "handle-timeout")
    /\ (wf.pc \in ReplySteps \/ \E i \in DOMAIN wf.log : wf.log[i].step \in ReplySteps)
           => (GotReply /\ wf.pc # "handle-timeout")
    /\ (wf.pc = "handle-timeout" \/ \E i \in DOMAIN wf.log : wf.log[i].step = "handle-timeout")
           => (TimedOut /\ wf.pc \notin ReplySteps)
    /\ ~(CountKind(CycleMessages, "summary") > 0 /\ CountKind(CycleMessages, "reminder") > 0)
    /\ SaveCalled => (GotReply /\ ~TimedOut)

\* a run on the reply branch has saved and sent its summary, after an earlier run of
\* the same agent took the timeout branch and sent its reminder
C36_Witness ==
    /\ runs = 2
    /\ wf.pc = "completed"
    /\ GotReply
    /\ InLog("save-check-in", "ok")
    /\ CountKind(CycleMessages, "summary") = 1
    /\ CountKind(messages, "reminder") = 1

\* ------------------------------------------------------ cycles that are over

\* C31: a run that has reached a terminal outcome (completed, after the reply or the
\* timeout, or failed) does nothing more: in every step from such a state either a
\* new run is created by a new trigger, or the run, the ledger, the cached state and
\* the save call are as they were and the conversation grows only by the prompt of a
\* firing of executeDailyCheckIn, which is a trigger of its own; a firing that has
\* ended does nothing more either until the next firing.
C31_TerminalCycleIsInert ==
    [][/\ Terminal =>
            \/ wf' = NewRun /\ runs' = runs + 1
            \/ /\ wf' = wf
               /\ runs' = runs
               /\ check_ins' = check_ins
               /\ state' = state
               /\ call' = call
               /\ messages' # messages => cron' # cron
       /\ cron.pc = "done" =>
            \/ cron' = cron /\ (messages' # messages => wf' # wf)
            \/ cron'.firings = cron.firings + 1]_vars

\* a second run was created after the first was over, and it is over as well, as is
\* a firing of executeDailyCheckIn
C31_Witness ==
    /\ runs = 2
    /\ wf.pc = "failed"
    /\ Len(wf.log) > 1
    /\ cron.pc = "done"
    /\ cron.delivered = 1

\* ------------------------------------------------ jobs that exist already

\* C37: no step of scheduleDailyCheckIn cancels or changes a job: every job of the
\* schedule table before the step is in the table after it with the same callback,
\* trigger and payload, the daily job included when its trigger is not the one of the
\* configured check-in time; the step adds at most one job, the daily one.
C37_ExistingJobsUntouched ==
    [][\A q \in Starters :
          (start[q].pc \in {"init", "scheduled"} /\ start'[q] # start[q]) =>
              /\ schedules \subseteq schedules'
              /\ Cardinality(schedules' \ schedules) <= 1
              /\ \A j \in schedules' \ schedules :
                    j.callback = "executeDailyCheckIn" /\ DailyJobs(schedules) = {}]_vars

\* a call has returned that found a task's job and a daily job whose trigger is not
\* the one of the configured check-in time: both are in the table
C37_Witness ==
    /\ TimeRegexTest(CheckInTime)
    /\ \E j \in DailyJobs(schedules) : j.when # DailyCron(CheckInTime)
    /\ \E j \in schedules : j.callback = "executeTask"
    /\ nextJob = 3
    /\ \E q \in Starters : start[q].pc = "done" /\ start[q].listedDaily

\* ------------------------------------------- errors of executeDailyCheckIn

\* C38: no error leaves executeDailyCheckIn: a failed first send is followed by the
\* fallback send and by nothing else, a firing that is over has made one send that
\* delivered the prompt or two sends of which the second delivered the fallback
\* prompt or nothing, and POST /test-check-in answers 200 {success: true} after each
\* of them.
C38_ExecuteDailyCheckInNeverThrows ==
    /\ cron.pc \in {"idle", "fallback", "done"}
    /\ cron.pc = "fallback" => (cron.attempts <= 1 /\ cron.delivered = 0)
    /\ cron.pc = "done" =>
          /\ \/ cron.attempts = 1 /\ cron.delivered = 1
             \/ cron.attempts = 2 /\ cron.delivered \in {0, 1}
          /\ TestCheckInResponse(cron) = [status |-> 200, body |-> "success"]

\* the prompt and the fallback prompt both failed and the firing has returned
C38_Witness ==
    /\ cron.pc = "done"
    /\ cron.attempts = 2
    /\ cron.delivered = 0
    /\ CountKind(messages, "fallback-prompt") = 0
    /\ TestCheckInResponse(cron).status = 200

\* ------------------------------------------------- the keys of the ledger

\* the (user, date) keys of the rows
Keys(rows) == {<<r.user_id, r.date>> : r \in rows}

\* C32: no step takes a (user, date) key out of check_ins, and the keys are those of
\* the days on which a saveCheckIn succeeded: a call that ends leaves the keys it
\* found when it started, with the key of its own day added exactly when it succeeded.
C32_KeysAreTheDaysSaved ==
    [][/\ Keys(check_ins) \subseteq Keys(check_ins')
       /\ \A p \in AllCallers :
             (call[p].pc # "done" /\ call'[p].pc = "done") =>
                 Keys(check_ins') =
                     Keys(pre'.check_ins) \cup
                         (IF call'[p].result = "ok"
                          THEN {<<call'[p].userId, call'[p].date>>}
                          ELSE {})]_vars

\* ------------------------------------------------- the frame of an update

\* what getAgentName and getModelProvider give when nothing fails
EffectiveName ==
    AgentName(FALSE, CachedName, FALSE, StoredName(user_preferences, StateUserId)).name

EffectiveProvider ==
    ModelProvider(FALSE, CachedProvider, FALSE, StoredProvider(user_preferences, StateUserId))

\* C34: an update changes its own preference only, in the state and in the row: a
\* step of updateAgentName leaves the model provider, the check-in time, the timezone
\* and the cached check-ins as they were, a step of updateModelProvider leaves the
\* agent's name and those as they were, and a step of saveCheckIn leaves every
\* preference and the rows of user_preferences as they were.
C34_UpdatesChangeOnlyTheirField ==
    [][/\ upd' # upd =>
            /\ EffectiveProvider' = EffectiveProvider
            /\ StoredProvider(user_preferences', StateUserId) =
                   StoredProvider(user_preferences, StateUserId)
            /\ CheckInTime' = CheckInTime
            /\ Timezone' = Timezone
            /\ state'.dailyCheckIns = state.dailyCheckIns
            /\ state'.lastCheckIn = state.lastCheckIn
       /\ prov' # prov =>
            /\ EffectiveName' = EffectiveName
            /\ StoredName(user_preferences', StateUserId) =
                   StoredName(user_preferences, StateUserId)
            /\ CheckInTime' = CheckInTime
            /\ Timezone' = Timezone
            /\ state'.dailyCheckIns = state.dailyCheckIns
            /\ state'.lastCheckIn = state.lastCheckIn
       /\ call' # call =>
            /\ EffectiveName' = EffectiveName
            /\ EffectiveProvider' = EffectiveProvider
            /\ CheckInTime' = CheckInTime
            /\ Timezone' = Timezone
            /\ user_preferences' = user_preferences]_vars

\* ------------------------------------------------- the name after an update

\* a step in which an updateAgentName ends with success
NameUpdateSucceeds ==
    \E p \in Callers : upd[p].pc = "upserted" /\ upd'[p].pc = "done" /\ upd'[p].result = "ok"

\* a step in which a getAgentName reads the state
NameReadBy(p) == get[p].pc = "idle" /\ get'[p].pc # "idle"

\* C35 as claimed: from the end of a successful updateAgentName(n) the cached name is
\* the trimmed n, no other operation changes a cached name, and every getAgentName
\* that finds a cached name returns it.
C35_NameStaysUntilNextUpdate ==
    [][/\ \A p \in Callers :
             (upd[p].pc = "upserted" /\ upd'[p].pc = "done" /\ upd'[p].result = "ok") =>
                 (CachedName' = Trim(upd[p].newName) /\ CachedName' # <<>>)
       /\ (CachedName # <<>> /\ ~NameUpdateSucceeds) => CachedName' = CachedName
       /\ \A p \in Callers :
             (NameReadBy(p) /\ CachedName # <<>>) => get'[p].name = CachedName]_vars

\* C35 as amended: the same, for the reads whose access to the state does not fail;
\* a read whose access to the state fails returns "MindGuard".
C35_NameStaysForReadsThatWork ==
    [][/\ \A p \in Callers :
             (upd[p].pc = "upserted" /\ upd'[p].pc = "done" /\ upd'[p].result = "ok") =>
                 (CachedName' = Trim(upd[p].newName) /\ CachedName' # <<>>)
       /\ (CachedName # <<>> /\ ~NameUpdateSucceeds) => CachedName' = CachedName
       /\ \A p \in Callers :
             (NameReadBy(p) /\ CachedName # <<>>) =>
                 /\ get'[p].pc = "done"
                 /\ get'[p].name = IF get'[p].stateThrew THEN Str_MindGuard ELSE CachedName]_vars

\* a read has returned the name of an update after which a check-in was saved, the
\* model provider was changed, the daily job was scheduled and a check-in was fired
C35_Witness ==
    /\ get[PrefCaller].pc = "done"
    /\ ~get[PrefCaller].stateThrew
    /\ get[PrefCaller].name = <<"Z", "o", "e">>
    /\ CachedName = <<"Z", "o", "e">>
    /\ state.lastCheckIn = today
    /\ state.preferences.modelProvider = "workers-ai"
    /\ DailyJobs(schedules) # {}
    /\ cron.pc = "done"

\* ------------------------------------------------- the shape of a response

\* C33: every response of onRequest and of the worker is a JSON object that is
\* {success: true, ...} with status 200 or {error: string} with status 400 or 500,
\* whatever the request, a request that no handler matches included.
C33_EveryResponseIsSuccessOrError ==
    http.surface # "none" =>
        \/ http.response.status = 200 /\ http.response.body = "success"
        \/ http.response.status \in {400, 500} /\ http.response.body = "error"

====
